---- MODULE Spec2Model ----
(***************************************************************************)
(* Model of the player animation state machine, the action state, the      *)
(* per-frame system schedule and the tile collision resolver of the game.  *)
(*                                                                         *)
(* Units: time in milliseconds (Duration / delta_secs), positions in       *)
(* thousandths of a world unit, the components of a normalised intent in   *)
(* thousandths (1000 on an axis, 707 on a diagonal), anchor offsets in     *)
(* hundredths.                                                             *)
(***************************************************************************)
EXTENDS Integers, Sequences, FiniteSets, TLC

VARIABLES
    gameState,   \* State<GameState>
    nextState,   \* NextState<GameState>: "Unchanged" or the pending state
    pc,          \* position of the frame in the Update schedule
    chain,       \* how many systems of the chained animation systems have run
    moved,       \* whether apply_movement has run in this frame
    keys,        \* ButtonInput<KeyCode>: the action keys just pressed this frame
    dt,          \* Time::delta of this frame, in ms
    anim,        \* the player's PlayerAnimation component
    act,         \* the player's PlayerActionState component
    actors,      \* the entities of apply_movement's movement_query, in query order
    tilemaps,    \* the entities of apply_movement's tilemap_q, in query order
    camera,      \* the window, the camera's projection scale and centre, CameraBounds
    world,       \* PreviousState, ResourceHandles and the Level and Enemy entities
    sprite,      \* the player's Sprite: atlas index and anchor
    cues,        \* number of footstep sound effects spawned in this frame
    pre          \* the player's components as they were when the frame began

vars == <<gameState, nextState, pc, chain, moved, keys, dt, anim, act, actors,
          tilemaps, camera, world, sprite, cues, pre>>

(***************************************************************************)
(* Bounds of the model.                                                    *)
(***************************************************************************)
\* the frames of the schedule last 300 ms, 600 ms, ... up to MaxDeltaSteps * 300 ms
MaxDeltaSteps == 2
DeltaTimes == {300 * k : k \in 1..MaxDeltaSteps}
\* action keys that can be newly pressed together in one frame
KeySets == {{}, {"E"}, {"Q"}, {"F"}, {"E", "Q"}, {"Q", "F"}}
\* direction keys held in a frame (W/S/A/D, or the arrows)
DirKeySets == {{}, {"W"}, {"S"}, {"A"}, {"D"}, {"W", "D"}, {"S", "A"}, {"A", "D"}}

(***************************************************************************)
(* constants.rs                                                            *)
(***************************************************************************)
PLAYER_MAX_SPEED == 800
TILE_SIZE == 16
TILE_SCALE == 3

(***************************************************************************)
(* animation.rs: Direction, ActionType, PlayerAnimationState               *)
(***************************************************************************)
Direction == {"Top", "Bottom", "Left", "Right"}
ActionType == {"Hoeing", "Watering", "Chopping"}
None == "None"

IdlingStates == {"IdlingT", "IdlingB", "IdlingL", "IdlingR"}
WalkingStates == {"WalkingT", "WalkingB", "WalkingL", "WalkingR"}
HoeingStates == {"HoeingT", "HoeingB", "HoeingL", "HoeingR"}
WateringStates == {"WateringT", "WateringB", "WateringL", "WateringR"}
ChoppingStates == {"ChoppingT", "ChoppingB", "ChoppingL", "ChoppingR"}
PlayerAnimationState ==
    IdlingStates \cup WalkingStates \cup HoeingStates \cup WateringStates
        \cup ChoppingStates

get_direction(s) ==
    CASE s \in {"IdlingT", "WalkingT", "HoeingT", "WateringT", "ChoppingT"} -> "Top"
      [] s \in {"IdlingB", "WalkingB", "HoeingB", "WateringB", "ChoppingB"} -> "Bottom"
      [] s \in {"IdlingL", "WalkingL", "HoeingL", "WateringL", "ChoppingL"} -> "Left"
      [] s \in {"IdlingR", "WalkingR", "HoeingR", "WateringR", "ChoppingR"} -> "Right"

from_action_and_direction(action, direction) ==
    CASE action = "Hoeing" /\ direction = "Top" -> "HoeingT"
      [] action = "Hoeing" /\ direction = "Bottom" -> "HoeingB"
      [] action = "Hoeing" /\ direction = "Left" -> "HoeingL"
      [] action = "Hoeing" /\ direction = "Right" -> "HoeingR"
      [] action = "Watering" /\ direction = "Top" -> "WateringT"
      [] action = "Watering" /\ direction = "Bottom" -> "WateringB"
      [] action = "Watering" /\ direction = "Left" -> "WateringL"
      [] action = "Watering" /\ direction = "Right" -> "WateringR"
      [] action = "Chopping" /\ direction = "Top" -> "ChoppingT"
      [] action = "Chopping" /\ direction = "Bottom" -> "ChoppingB"
      [] action = "Chopping" /\ direction = "Left" -> "ChoppingL"
      [] action = "Chopping" /\ direction = "Right" -> "ChoppingR"

\* the Idling state of the default facing, whatever the direction
IdlingOf_bottom(direction) == "IdlingB"

\* the Idling state of a direction (the match of update_player_actions and of
\* update_animation_movement)
IdlingOf(direction) ==
    CASE direction = "Top" -> "IdlingT"
      [] direction = "Bottom" -> "IdlingB"
      [] direction = "Left" -> "IdlingL"
      [] direction = "Right" -> "IdlingR"

is_walking(s) == s \in WalkingStates

\* the anchor points with the frames of HoeingL exchanged
get_anchor_point_hoeing_left_frames(s, frame) ==
    CASE s = "HoeingL" -> IF frame = 0 THEN <<20, 0>> ELSE <<0, 0>>
      [] s = "HoeingR" -> IF frame = 1 THEN <<-20, 0>> ELSE <<0, 0>>
      [] s = "WateringR" -> IF frame = 1 THEN <<-20, 0>> ELSE <<-25, 0>>
      [] s = "WateringL" -> IF frame = 1 THEN <<30, 0>> ELSE <<25, 0>>
      [] s = "ChoppingR" -> IF frame = 1 THEN <<-20, 0>> ELSE <<20, 0>>
      [] s = "ChoppingL" -> IF frame = 1 THEN <<20, 0>> ELSE <<-20, 0>>
      [] s = "ChoppingT" -> IF frame = 1 THEN <<-10, 0>> ELSE <<0, 0>>
      [] s = "ChoppingB" -> IF frame = 1 THEN <<0, 0>> ELSE <<10, 0>>
      [] OTHER -> <<0, 0>>

get_anchor_point(s, frame) ==
    CASE s = "HoeingL" -> IF frame = 1 THEN <<20, 0>> ELSE <<0, 0>>
      [] s = "HoeingR" -> IF frame = 1 THEN <<-20, 0>> ELSE <<0, 0>>
      [] s = "WateringR" -> IF frame = 1 THEN <<-20, 0>> ELSE <<-25, 0>>
      [] s = "WateringL" -> IF frame = 1 THEN <<30, 0>> ELSE <<25, 0>>
      [] s = "ChoppingR" -> IF frame = 1 THEN <<-20, 0>> ELSE <<20, 0>>
      [] s = "ChoppingL" -> IF frame = 1 THEN <<20, 0>> ELSE <<-20, 0>>
      [] s = "ChoppingT" -> IF frame = 1 THEN <<-10, 0>> ELSE <<0, 0>>
      [] s = "ChoppingB" -> IF frame = 1 THEN <<0, 0>> ELSE <<10, 0>>
      [] OTHER -> <<0, 0>>

(***************************************************************************)
(* animation.rs: impl PlayerAnimation                                      *)
(***************************************************************************)
IDLE_INTERVAL == 500
WALKING_INTERVAL == 150
HOEING_INTERVAL == 300
WATERING_INTERVAL == 300
CHOPPING_INTERVAL == 300
WALKING_FRAMES == 2
HOEING_FRAMES == 2
WATERING_FRAMES == 2
IDLE_FRAMES == 2
CHOPPING_FRAMES == 2

\* Timer::new(duration, TimerMode::Repeating)
TimerNew(duration) == [duration |-> duration, elapsed |-> 0, finished |-> FALSE]

\* Timer::tick of a repeating timer: the elapsed time wraps at the duration and
\* finished() tells whether this tick completed at least one cycle
TimerTick(timer, delta) ==
    LET e == timer.elapsed + delta
    IN  IF e >= timer.duration
        THEN [timer EXCEPT !.elapsed = e % timer.duration, !.finished = TRUE]
        ELSE [timer EXCEPT !.elapsed = e, !.finished = FALSE]

internal_new(duration, state) ==
    [timer |-> TimerNew(duration), frame |-> 0, state |-> state,
     state_changed |-> TRUE]

PlayerAnimationNew == internal_new(IDLE_INTERVAL, "IdlingB")

\* the frame count update_timer matches on the state
FramesOf(s) ==
    CASE s \in IdlingStates -> IDLE_FRAMES
      [] s \in WalkingStates -> WALKING_FRAMES
      [] s \in HoeingStates -> HOEING_FRAMES
      [] s \in WateringStates -> WATERING_FRAMES
      [] s \in ChoppingStates -> CHOPPING_FRAMES

\* update_timer stopping at the last frame instead of wrapping to frame 0
update_timer_stop_at_last(a, delta) ==
    LET t == TimerTick(a.timer, delta)
        last == FramesOf(a.state) - 1
    IN  IF ~t.finished
        THEN [a EXCEPT !.timer = t]
        ELSE [a EXCEPT !.timer = t,
                       !.frame = IF a.frame < last THEN a.frame + 1 ELSE last]

update_timer(a, delta) ==
    LET t == TimerTick(a.timer, delta)
    IN  IF ~t.finished
        THEN [a EXCEPT !.timer = t]
        ELSE [a EXCEPT !.timer = t, !.frame = (a.frame + 1) % FramesOf(a.state)]

\* the intervals with the idle one for the Walking states
IntervalOf_walking_as_idle(s) ==
    CASE s \in IdlingStates -> IDLE_INTERVAL
      [] s \in WalkingStates -> IDLE_INTERVAL
      [] s \in HoeingStates -> HOEING_INTERVAL
      [] s \in WateringStates -> WATERING_INTERVAL
      [] s \in ChoppingStates -> CHOPPING_INTERVAL

\* the interval update_state matches on the new state
IntervalOf(s) ==
    CASE s \in IdlingStates -> IDLE_INTERVAL
      [] s \in WalkingStates -> WALKING_INTERVAL
      [] s \in HoeingStates -> HOEING_INTERVAL
      [] s \in WateringStates -> WATERING_INTERVAL
      [] s \in ChoppingStates -> CHOPPING_INTERVAL

\* update_state without its comparison with the current state
update_state_always_new(a, state) == internal_new(IntervalOf(state), state)

\* update_state replacing the state and keeping the running timer
update_state_keeps_timer(a, state) ==
    IF a.state # state
    THEN [a EXCEPT !.state = state, !.frame = 0, !.state_changed = TRUE]
    ELSE a

update_state(a, state) ==
    IF a.state # state THEN internal_new(IntervalOf(state), state) ELSE a

\* changed() looking at the dirty flag only
changed_dirty_only(a) == a.state_changed

changed(a) == IF a.state_changed THEN TRUE ELSE a.timer.finished

\* set_state_changed that stores nothing
set_state_changed_ignored(a, state_changed) == a

set_state_changed(a, state_changed) == [a EXCEPT !.state_changed = state_changed]

\* the atlas indices with the columns of HoeingT and ChoppingT exchanged
get_atlas_index_top_swapped(a) ==
    CASE a.state = "IdlingB" -> a.frame
      [] a.state = "WalkingB" -> 2 + a.frame
      [] a.state = "IdlingL" -> 32 + a.frame
      [] a.state = "WalkingL" -> 34 + a.frame
      [] a.state = "IdlingR" -> 48 + a.frame
      [] a.state = "WalkingR" -> 50 + a.frame
      [] a.state = "IdlingT" -> 16 + a.frame
      [] a.state = "WalkingT" -> 18 + a.frame
      [] a.state = "HoeingT" -> 22 + a.frame
      [] a.state = "HoeingB" -> 4 + a.frame
      [] a.state = "HoeingL" -> 36 + a.frame
      [] a.state = "HoeingR" -> 52 + a.frame
      [] a.state = "WateringT" -> 24 + a.frame
      [] a.state = "WateringB" -> 8 + a.frame
      [] a.state = "WateringL" -> 40 + a.frame
      [] a.state = "WateringR" -> 56 + a.frame
      [] a.state = "ChoppingT" -> 20 + a.frame
      [] a.state = "ChoppingB" -> 6 + a.frame
      [] a.state = "ChoppingL" -> 38 + a.frame
      [] a.state = "ChoppingR" -> 54 + a.frame

\* the atlas indices with WalkingB starting at the second cell of IdlingB
get_atlas_index_walking_overlaps(a) ==
    CASE a.state = "IdlingB" -> a.frame
      [] a.state = "WalkingB" -> 1 + a.frame
      [] a.state = "IdlingL" -> 32 + a.frame
      [] a.state = "WalkingL" -> 34 + a.frame
      [] a.state = "IdlingR" -> 48 + a.frame
      [] a.state = "WalkingR" -> 50 + a.frame
      [] a.state = "IdlingT" -> 16 + a.frame
      [] a.state = "WalkingT" -> 18 + a.frame
      [] a.state = "HoeingT" -> 20 + a.frame
      [] a.state = "HoeingB" -> 4 + a.frame
      [] a.state = "HoeingL" -> 36 + a.frame
      [] a.state = "HoeingR" -> 52 + a.frame
      [] a.state = "WateringT" -> 24 + a.frame
      [] a.state = "WateringB" -> 8 + a.frame
      [] a.state = "WateringL" -> 40 + a.frame
      [] a.state = "WateringR" -> 56 + a.frame
      [] a.state = "ChoppingT" -> 22 + a.frame
      [] a.state = "ChoppingB" -> 6 + a.frame
      [] a.state = "ChoppingL" -> 38 + a.frame
      [] a.state = "ChoppingR" -> 54 + a.frame

get_atlas_index(a) ==
    CASE a.state = "IdlingB" -> a.frame
      [] a.state = "WalkingB" -> 2 + a.frame
      [] a.state = "IdlingL" -> 32 + a.frame
      [] a.state = "WalkingL" -> 34 + a.frame
      [] a.state = "IdlingR" -> 48 + a.frame
      [] a.state = "WalkingR" -> 50 + a.frame
      [] a.state = "IdlingT" -> 16 + a.frame
      [] a.state = "WalkingT" -> 18 + a.frame
      [] a.state = "HoeingT" -> 20 + a.frame
      [] a.state = "HoeingB" -> 4 + a.frame
      [] a.state = "HoeingL" -> 36 + a.frame
      [] a.state = "HoeingR" -> 52 + a.frame
      [] a.state = "WateringT" -> 24 + a.frame
      [] a.state = "WateringB" -> 8 + a.frame
      [] a.state = "WateringL" -> 40 + a.frame
      [] a.state = "WateringR" -> 56 + a.frame
      [] a.state = "ChoppingT" -> 22 + a.frame
      [] a.state = "ChoppingB" -> 6 + a.frame
      [] a.state = "ChoppingL" -> 38 + a.frame
      [] a.state = "ChoppingR" -> 54 + a.frame

(***************************************************************************)
(* movement.rs: MovementController, and player.rs: the player's input      *)
(***************************************************************************)
ZERO == <<0, 0>>

\* Vec2::normalize_or_zero of a vector with components in {-1, 0, 1}
normalize_or_zero(v) ==
    IF v[1] # 0 /\ v[2] # 0 THEN <<707 * v[1], 707 * v[2]>>
    ELSE <<1000 * v[1], 1000 * v[2]>>

\* the intent from the keys held without the normalisation
DirectionalIntent_not_normalized(held) ==
    LET up == IF "W" \in held \/ "ArrowUp" \in held THEN 1 ELSE 0
        down == IF "S" \in held \/ "ArrowDown" \in held THEN 1 ELSE 0
        left == IF "A" \in held \/ "ArrowLeft" \in held THEN 1 ELSE 0
        right == IF "D" \in held \/ "ArrowRight" \in held THEN 1 ELSE 0
    IN  <<1000 * (right - left), 1000 * (up - down)>>

\* the intent record_player_directional_input computes from the keys held
DirectionalIntent(held) ==
    LET up == IF "W" \in held \/ "ArrowUp" \in held THEN 1 ELSE 0
        down == IF "S" \in held \/ "ArrowDown" \in held THEN 1 ELSE 0
        left == IF "A" \in held \/ "ArrowLeft" \in held THEN 1 ELSE 0
        right == IF "D" \in held \/ "ArrowRight" \in held THEN 1 ELSE 0
    IN  normalize_or_zero(<<right - left, up - down>>)

PlayerActionStateDefault == [current_action |-> None, action_progress |-> 0]

\* record_player_actions_input without its check of the action and the intent
record_player_actions_input_unguarded(a, intent, pressed) ==
    IF "E" \in pressed
    THEN [current_action |-> "Watering", action_progress |-> 0]
    ELSE IF "Q" \in pressed
    THEN [current_action |-> "Hoeing", action_progress |-> 0]
    ELSE IF "F" \in pressed
    THEN [current_action |-> "Chopping", action_progress |-> 0]
    ELSE a

\* record_player_actions_input on the player's PlayerActionState
record_player_actions_input(a, intent, pressed) ==
    IF a.current_action = None /\ intent = ZERO
    THEN IF "E" \in pressed
         THEN [current_action |-> "Watering", action_progress |-> 0]
         ELSE IF "Q" \in pressed
         THEN [current_action |-> "Hoeing", action_progress |-> 0]
         ELSE IF "F" \in pressed
         THEN [current_action |-> "Chopping", action_progress |-> 0]
         ELSE a
    ELSE a

(***************************************************************************)
(* animation.rs: the systems, as functions of the components they access   *)
(***************************************************************************)
\* the durations with a longer one for Chopping
ActionDuration_chopping_longer(action) ==
    CASE action = "Watering" -> 600
      [] action = "Hoeing" -> 600
      [] action = "Chopping" -> 900
      [] OTHER -> 0

\* the duration update_player_actions matches on the current action (ms)
ActionDuration(action) ==
    CASE action = "Watering" -> 600
      [] action = "Hoeing" -> 600
      [] action = "Chopping" -> 600
      [] OTHER -> 0

\* the start of an action in update_player_actions
StartAction(a, action) ==
    [anim |-> update_state(a, from_action_and_direction(action, get_direction(a.state))),
     act |-> [current_action |-> action, action_progress |-> 0]]

update_player_actions(a, s, intent, pressed, delta) ==
    LET direction == get_direction(a.state)
    IN  IF s.current_action = None
        THEN IF intent = ZERO
             THEN IF "E" \in pressed THEN StartAction(a, "Watering")
                  ELSE IF "Q" \in pressed THEN StartAction(a, "Hoeing")
                  ELSE IF "F" \in pressed THEN StartAction(a, "Chopping")
                  ELSE [anim |-> a, act |-> s]
             ELSE [anim |-> a, act |-> s]
        ELSE LET progress == s.action_progress + delta
             IN  IF progress >= ActionDuration(s.current_action)
                 THEN [anim |-> update_state(a, IdlingOf(direction)),
                       act |-> [current_action |-> None, action_progress |-> progress]]
                 ELSE [anim |-> a,
                       act |-> [s EXCEPT !.action_progress = progress]]

\* the selection with the vertical states on a tie
MovementState_vertical_on_tie(intent, current_direction) ==
    LET absx == IF intent[1] < 0 THEN -intent[1] ELSE intent[1]
        absy == IF intent[2] < 0 THEN -intent[2] ELSE intent[2]
    IN  IF intent = ZERO THEN IdlingOf(current_direction)
        ELSE IF absy >= absx
             THEN (IF intent[2] > 0 THEN "WalkingT" ELSE "WalkingB")
             ELSE IF intent[1] > 0 THEN "WalkingR" ELSE "WalkingL"

\* the state update_animation_movement selects from the intent
MovementState(intent, current_direction) ==
    LET absx == IF intent[1] < 0 THEN -intent[1] ELSE intent[1]
        absy == IF intent[2] < 0 THEN -intent[2] ELSE intent[2]
    IN  IF intent = ZERO THEN IdlingOf(current_direction)
        ELSE IF absy > absx
             THEN (IF intent[2] > 0 THEN "WalkingT" ELSE "WalkingB")
             ELSE IF intent[1] > 0 THEN "WalkingR" ELSE "WalkingL"

\* update_animation_movement without its early return on an action in progress
update_animation_movement_unguarded(intent, a, s) ==
    LET animation_state == MovementState(intent, get_direction(a.state))
    IN  IF a.state # animation_state
        THEN update_state(set_state_changed(a, TRUE), animation_state)
        ELSE a

\* update_animation_movement that returns early on a zero intent
update_animation_movement_no_idle(intent, a, s) ==
    IF s.current_action # None \/ intent = ZERO THEN a
    ELSE LET animation_state == MovementState(intent, get_direction(a.state))
         IN  IF a.state # animation_state
             THEN update_state(set_state_changed(a, TRUE), animation_state)
             ELSE a

update_animation_movement(intent, a, s) ==
    IF s.current_action # None THEN a
    ELSE LET animation_state == MovementState(intent, get_direction(a.state))
         IN  IF a.state # animation_state
             THEN update_state(set_state_changed(a, TRUE), animation_state)
             ELSE a

\* update_animation_atlas looking at the dirty flag instead of changed()
update_animation_atlas_dirty_only(a, sp) ==
    IF a.state_changed
    THEN [index |-> get_atlas_index(a), anchor |-> get_anchor_point(a.state, a.frame)]
    ELSE sp

update_animation_atlas(a, sp) ==
    IF changed(a)
    THEN [index |-> get_atlas_index(a), anchor |-> get_anchor_point(a.state, a.frame)]
    ELSE sp

\* whether trigger_step_sound_effect spawns a sound effect
StepSound(a) == is_walking(a.state) /\ changed(a)

(***************************************************************************)
(* movement.rs: apply_movement                                             *)
(*                                                                         *)
(* An actor is [intent, max_speed, pos, half]: its MovementController, the *)
(* translation of its Transform and the half extents of its Aabb.  A       *)
(* tilemap is [size, grid, translation, scale, tiles]: TilemapSize, the    *)
(* TilemapGridSize (thousandths), the translation and the uniform scale of *)
(* its Transform, and its TileStorage as a function from the cells to      *)
(* "Empty" (no tile entity), "Tile" or "Obstacle" (a tile entity with the  *)
(* Obstacle component).  The maps are square and anchored at their centre  *)
(* (tiledhelper.rs sets TilemapAnchor::Center).                            *)
(***************************************************************************)
NoTile == <<-1, -1>>

\* floor(n / d) for d > 0
FloorDiv(n, d) == IF n >= 0 THEN n \div d ELSE -((-n + d - 1) \div d)

\* one axis of TilePos::from_world_pos applied to the inverse of the map's
\* transform: the map covers [-size*grid/2, size*grid/2) in map space
CellOnAxis(p, t, scale, size, grid) ==
    FloorDiv(2 * (p - t) + scale * size * grid, 2 * scale * grid)

\* the cell of map m the world position p maps to, NoTile outside the grid
TilePosFromWorldPos(p, m) ==
    LET x == CellOnAxis(p[1], m.translation[1], m.scale, m.size[1], m.grid[1])
        y == CellOnAxis(p[2], m.translation[2], m.scale, m.size[2], m.grid[2])
    IN  IF x >= 0 /\ x < m.size[1] /\ y >= 0 /\ y < m.size[2]
        THEN <<x, y>>
        ELSE NoTile

\* the condition of apply_movement's early exit for one map
ObstacleAt(p, m) ==
    LET future_tile_pos == TilePosFromWorldPos(p, m)
    IN  /\ future_tile_pos # NoTile
        /\ m.tiles[future_tile_pos] # "Empty"
        /\ m.tiles[future_tile_pos] = "Obstacle"

\* velocity * delta_secs, in thousandths
DeltaMovement(controller, delta) ==
    <<(controller.max_speed * controller.intent[1] * delta) \div 1000,
      (controller.max_speed * controller.intent[2] * delta) \div 1000>>

\* the probe without the half extents of the Aabb
FuturePosition_without_half_extents(actor, delta) ==
    LET d == DeltaMovement(actor, delta)
    IN  <<actor.pos[1] + d[1], actor.pos[2] + d[2]>>

FuturePosition(actor, delta) ==
    LET d == DeltaMovement(actor, delta)
    IN  <<actor.pos[1] + d[1] + actor.half[1], actor.pos[2] + d[2] + actor.half[2]>>

\* the body of the loop over movement_query from actor i on; an obstacle ends the
\* system ("return"), otherwise the actor is moved if its intent is not zero
RECURSIVE MoveFrom(_, _, _, _)
MoveFrom(as, i, maps, delta) ==
    IF i > Len(as) THEN as
    ELSE LET d == DeltaMovement(as[i], delta)
             future_position == FuturePosition(as[i], delta)
         IN  IF \E k \in 1..Len(maps) : ObstacleAt(future_position, maps[k])
             THEN as
             ELSE IF as[i].intent # ZERO
             THEN MoveFrom([as EXCEPT ![i].pos = <<as[i].pos[1] + d[1], as[i].pos[2] + d[2]>>],
                           i + 1, maps, delta)
             ELSE MoveFrom(as, i + 1, maps, delta)

\* apply_movement looking at the first tilemap only
apply_movement_first_map_only(as, maps, delta) ==
    MoveFrom(as, 1, IF maps = <<>> THEN maps ELSE <<maps[1]>>, delta)

\* apply_movement taking the controller of the first actor for every actor
RECURSIVE MoveFromFirstController(_, _, _, _)
MoveFromFirstController(as, i, maps, delta) ==
    IF i > Len(as) THEN as
    ELSE LET c == [as[i] EXCEPT !.intent = as[1].intent, !.max_speed = as[1].max_speed]
             d == DeltaMovement(c, delta)
         IN  IF \E k \in 1..Len(maps) : ObstacleAt(FuturePosition(c, delta), maps[k])
             THEN as
             ELSE IF c.intent # ZERO
             THEN MoveFromFirstController(
                      [as EXCEPT ![i].pos = <<as[i].pos[1] + d[1], as[i].pos[2] + d[2]>>],
                      i + 1, maps, delta)
             ELSE MoveFromFirstController(as, i + 1, maps, delta)

apply_movement_first_controller(as, maps, delta) ==
    MoveFromFirstController(as, 1, maps, delta)

apply_movement(as, maps, delta) == MoveFrom(as, 1, maps, delta)

(***************************************************************************)
(* camera.rs.  Lengths are in thousandths of a world unit, the projection  *)
(* scale in hundredths; window sizes are even numbers of pixels.  failed   *)
(* tells that a system of the camera has panicked; last names the system   *)
(* of the camera that ran last.                                            *)
(***************************************************************************)
MAP_WIDTH == 54
MAP_HEIGHT == 36
WRAP_Y_OFFSET == 12

\* spawn_camera (scale 1.0 of the orthographic projection, at the origin), the
\* default window and CameraBounds::from_world
CameraDefault ==
    [window |-> <<1280, 720>>, scale |-> 100, min |-> <<0, 0>>, max |-> <<0, 0>>,
     pos |-> <<0, 0>>, event |-> FALSE, failed |-> FALSE, last |-> "none"]

ClampOk(lo, hi) == lo <= hi
\* f32::clamp, which panics when its lower limit is above its upper limit
Clamp(v, lo, hi) == IF v < lo THEN lo ELSE IF v > hi THEN hi ELSE v

calculate_camera_bounds(c) ==
    LET half_visible_w == (c.window[1] \div 2) * c.scale * 10
        half_visible_h == (c.window[2] \div 2) * c.scale * 10
        half_map_w == (MAP_WIDTH * TILE_SIZE * TILE_SCALE * 1000) \div 2
        half_map_h == (MAP_HEIGHT * TILE_SIZE * TILE_SCALE * 1000) \div 2
    IN  [c EXCEPT !.min = <<half_visible_w - half_map_w, half_visible_h - half_map_h>>,
                  !.max = <<half_map_w - half_visible_w, half_map_h - half_visible_h>>,
                  !.event = FALSE, !.last = "calculate_camera_bounds"]

\* camera_follow_player for the player at player_pos
camera_follow_player(c, player_pos) ==
    LET lo_y == c.min[2] - WRAP_Y_OFFSET * 1000
    IN  IF ~ClampOk(c.min[1], c.max[1]) \/ ~ClampOk(lo_y, c.max[2])
        THEN [c EXCEPT !.failed = TRUE, !.last = "camera_follow_player"]
        ELSE [c EXCEPT !.pos = <<Clamp(player_pos[1], c.min[1], c.max[1]),
                                 Clamp(player_pos[2], lo_y, c.max[2])>>,
                       !.last = "camera_follow_player"]

\* camera_zoom for a total scroll of scroll_amount lines (not 0): the scale is
\* multiplied by 1 - scroll_amount * 0.1 and clamped to [0.2, 1.0]
camera_zoom(c, scroll_amount) ==
    [c EXCEPT !.scale = Clamp(FloorDiv(c.scale * (10 - scroll_amount), 10), 20, 100),
              !.event = TRUE, !.last = "camera_zoom"]

(***************************************************************************)
(* The entities and resources of the screens: PreviousState (states.rs),   *)
(* whether ResourceHandles::is_all_done, the number of Level entities,     *)
(* each with its one Player child (level.rs), and the number of Enemy      *)
(* entities (enemy.rs); exited is the state the last transition has left   *)
(* and settings_from the state the last transition into Settings has left; *)
(* music is the number of gameplay music entities and music_entity tells   *)
(* whether GameplayMusic records one.                                      *)
(* The default is a game in Gameplay entered from the Title screen.        *)
(***************************************************************************)
ENEMIES_PER_SPAWN == 5

WorldDefault ==
    [previous_state |-> "Title", all_done |-> TRUE, levels |-> 1,
     enemies |-> ENEMIES_PER_SPAWN, changed |-> FALSE,
     exited |-> "Title", settings_from |-> "Splash",
     music |-> 1, music_entity |-> TRUE]

\* gameplay.rs: the music entity is spawned and recorded in GameplayMusic
start_gameplay_music(w) ==
    [w EXCEPT !.music = @ + 1, !.music_entity = TRUE]

\* stop_gameplay_music forgetting the entity without despawning it
stop_gameplay_music_forgets(w) == [w EXCEPT !.music_entity = FALSE]

\* gameplay.rs: the recorded entity, if any, is taken and despawned
stop_gameplay_music(w) ==
    IF w.music_entity
    THEN [w EXCEPT !.music = @ - 1, !.music_entity = FALSE]
    ELSE w

(***************************************************************************)
(* The frame: the Update schedule with the sets TickTimers, RecordInput,   *)
(* PreUpdate, Update, PostUpdate chained (lib.rs).  Inside the Update set  *)
(* the four animation systems are chained and apply_movement is ordered    *)
(* against none of them.  The game is in Gameplay or Pausing, the player   *)
(* exists and PlayerAssets is loaded.  No tilemap is loaded in this        *)
(* specification, so apply_movement does not depend on where the player    *)
(* is, and the position is kept relative to where the frame began.         *)
(***************************************************************************)
GRID_SIZE_X == 24
GRID_SIZE_Y == 32

\* the MovementController, Transform and Aabb of the entity player() spawns
PlayerActor ==
    [intent |-> ZERO, max_speed |-> PLAYER_MAX_SPEED, pos |-> ZERO,
     half |-> <<GRID_SIZE_X * 500, GRID_SIZE_Y * 500>>]

Snapshot == [anim |-> anim, act |-> act]

Init ==
    /\ gameState = "Gameplay"
    /\ nextState = "Unchanged"
    /\ pc = "begin"
    /\ chain = 0
    /\ moved = FALSE
    /\ keys = {}
    /\ dt = 0
    /\ anim = PlayerAnimationNew
    /\ act = PlayerActionStateDefault
    /\ actors = <<PlayerActor>>
    /\ tilemaps = <<>>
    /\ camera = CameraDefault
    /\ world = WorldDefault
    /\ sprite = [index |-> get_atlas_index(PlayerAnimationNew), anchor |-> ZERO]
    /\ cues = 0
    /\ pre = [anim |-> PlayerAnimationNew, act |-> PlayerActionStateDefault]

\* the engine starts a frame: the pending state transition is applied, the
\* input and the time of the frame are sampled
BeginFrame ==
    /\ pc \in {"begin", "end"}
    /\ gameState' = IF nextState # "Unchanged" THEN nextState ELSE gameState
    /\ nextState' = "Unchanged"
    /\ \E pressed \in KeySets : keys' = pressed
    /\ \E delta \in DeltaTimes : dt' = delta
    /\ pc' = "TickTimers"
    /\ chain' = 0
    /\ moved' = FALSE
    /\ cues' = 0
    /\ actors' = [actors EXCEPT ![1].pos = ZERO]
    /\ pre' = Snapshot
    /\ UNCHANGED <<anim, act, tilemaps, camera, world, sprite>>

\* update_animation_timer, in TickTimers, with no run condition
UpdateAnimationTimer ==
    /\ pc = "TickTimers"
    /\ anim' = update_timer(anim, dt)
    /\ pc' = "RecordInput"
    /\ UNCHANGED <<gameState, nextState, chain, moved, keys, dt, act, actors,
                   tilemaps, camera, world, sprite, cues, pre>>

\* record_player_directional_input, first in RecordInput, in Gameplay only
RecordPlayerDirectionalInput ==
    /\ pc = "RecordInput"
    /\ IF gameState = "Gameplay"
       THEN \E held \in DirKeySets :
                actors' = [actors EXCEPT ![1].intent = DirectionalIntent(held)]
       ELSE UNCHANGED actors
    /\ pc' = "RecordActions"
    /\ UNCHANGED <<gameState, nextState, chain, moved, keys, dt, anim, act,
                   tilemaps, camera, world, sprite, cues, pre>>

\* record_player_actions_input, chained after it, in Gameplay only
RecordPlayerActionsInput ==
    /\ pc = "RecordActions"
    /\ IF gameState = "Gameplay"
       THEN act' = record_player_actions_input(act, actors[1].intent, keys)
       ELSE UNCHANGED act
    /\ pc' = "Update"
    /\ UNCHANGED <<gameState, nextState, chain, moved, keys, dt, anim, actors,
                   tilemaps, camera, world, sprite, cues, pre>>

UpdatePlayerActions ==
    /\ pc = "Update" /\ chain = 0
    /\ LET r == update_player_actions(anim, act, actors[1].intent, keys, dt)
       IN  anim' = r.anim /\ act' = r.act
    /\ chain' = 1
    /\ UNCHANGED <<gameState, nextState, pc, moved, keys, dt, actors, tilemaps, camera, world,
                   sprite, cues, pre>>

UpdateAnimationMovement ==
    /\ pc = "Update" /\ chain = 1
    /\ anim' = update_animation_movement(actors[1].intent, anim, act)
    /\ chain' = 2
    /\ UNCHANGED <<gameState, nextState, pc, moved, keys, dt, act, actors,
                   tilemaps, camera, world, sprite, cues, pre>>

UpdateAnimationAtlas ==
    /\ pc = "Update" /\ chain = 2
    /\ sprite' = update_animation_atlas(anim, sprite)
    /\ chain' = 3
    /\ UNCHANGED <<gameState, nextState, pc, moved, keys, dt, anim, act, actors,
                   tilemaps, camera, world, cues, pre>>

TriggerStepSoundEffect ==
    /\ pc = "Update" /\ chain = 3
    /\ cues' = IF StepSound(anim) THEN cues + 1 ELSE cues
    /\ anim' = set_state_changed(anim, FALSE)
    /\ chain' = 4
    /\ UNCHANGED <<gameState, nextState, pc, moved, keys, dt, act, actors,
                   tilemaps, camera, world, sprite, pre>>

\* apply_movement moving the player only while the animation is a Walking one
ApplyMovement_walking_only ==
    /\ pc = "Update" /\ ~moved
    /\ IF gameState = "Gameplay" /\ is_walking(anim.state)
       THEN actors' = apply_movement(actors, tilemaps, dt)
       ELSE UNCHANGED actors
    /\ moved' = TRUE
    /\ UNCHANGED <<gameState, nextState, pc, chain, keys, dt, anim, act,
                   tilemaps, camera, world, sprite, cues, pre>>

\* apply_movement, in the Update set, in Gameplay only
ApplyMovement ==
    /\ pc = "Update" /\ ~moved
    /\ IF gameState = "Gameplay"
       THEN actors' = apply_movement(actors, tilemaps, dt)
       ELSE UNCHANGED actors
    /\ moved' = TRUE
    /\ UNCHANGED <<gameState, nextState, pc, chain, keys, dt, anim, act,
                   tilemaps, camera, world, sprite, cues, pre>>

\* pause_or_continue_gameplay: runs when Escape was just pressed; it reads and
\* writes nothing the other systems of the frame access
PauseOrContinueGameplay ==
    /\ pc = "Update" /\ chain = 4 /\ moved
    /\ \E escape \in BOOLEAN :
           nextState' = IF ~escape THEN nextState
                        ELSE IF gameState = "Pausing" THEN "Gameplay"
                        ELSE "Pausing"
    /\ pc' = "end"
    /\ UNCHANGED <<gameState, chain, moved, keys, dt, anim, act, actors,
                   tilemaps, camera, world, sprite, cues, pre>>

Next ==
    \/ BeginFrame
    \/ UpdateAnimationTimer
    \/ RecordPlayerDirectionalInput
    \/ RecordPlayerActionsInput
    \/ UpdatePlayerActions
    \/ UpdateAnimationMovement
    \/ UpdateAnimationAtlas
    \/ TriggerStepSoundEffect
    \/ ApplyMovement
    \/ PauseOrContinueGameplay

Spec == Init /\ [][Next]_vars

\* the frame's scheduling is weakly fair: the engine runs every frame to its
\* end and starts the next one
FairSpec == Spec /\ WF_vars(Next)

(***************************************************************************)
(* The player's PlayerAnimation and PlayerActionState at the end of a      *)
(* frame that began with the components p, in game state gs, with the      *)
(* intent of the frame, the action keys pressed and the frame time: the    *)
(* systems in the order of the schedule.                                   *)
(***************************************************************************)
FrameResult(p, gs, intent, pressed, delta) ==
    LET a1 == update_timer(p.anim, delta)
        s1 == IF gs = "Gameplay"
              THEN record_player_actions_input(p.act, intent, pressed)
              ELSE p.act
        r == update_player_actions(a1, s1, intent, pressed, delta)
        a2 == update_animation_movement(intent, r.anim, r.act)
    IN  [anim |-> set_state_changed(a2, FALSE), act |-> r.act]

\* the action a set of newly pressed keys asks for
KeyAction(pressed) ==
    IF "E" \in pressed THEN "Watering"
    ELSE IF "Q" \in pressed THEN "Hoeing"
    ELSE IF "F" \in pressed THEN "Chopping"
    ELSE None

EndOfFrame == pc = "end"
Intent == actors[1].intent

(***************************************************************************)
(* C1: at the end of a Gameplay frame in which an action key was newly     *)
(* pressed with zero intent and no action in progress, the animation state *)
(* is the action state of that key with the facing held before, at frame 0 *)
(***************************************************************************)
C1_ActionKeyEntersActionState ==
    (/\ EndOfFrame
     /\ gameState = "Gameplay"
     /\ keys # {}
     /\ Intent = ZERO
     /\ pre.act.current_action = None)
    => /\ anim.state = from_action_and_direction(KeyAction(keys),
                                                  get_direction(pre.anim.state))
       /\ anim.frame = 0

(***************************************************************************)
(* C2: in a frame whose intent is not zero or that began with an action in *)
(* progress, an action-key press is a no-op: the action state and the      *)
(* animation end the frame as they would have with no key pressed, no      *)
(* action starts and a running action is neither restarted nor replaced    *)
(***************************************************************************)
C2_NoActionStartWhileMovingOrBusy ==
    (EndOfFrame /\ (Intent # ZERO \/ pre.act.current_action # None))
    => /\ [anim |-> anim, act |-> act] = FrameResult(pre, gameState, Intent, {}, dt)
       /\ act.current_action \in {None, pre.act.current_action}
       /\ act.current_action # None
            => act.action_progress = pre.act.action_progress + dt

C2_Witness ==
    /\ EndOfFrame
    /\ keys # {}
    /\ Intent # ZERO
    /\ pre.act.current_action = None
    /\ act.current_action = None

C2_WitnessBusy ==
    /\ EndOfFrame
    /\ keys # {}
    /\ pre.act.current_action # None
    /\ act.current_action = pre.act.current_action

(***************************************************************************)
(* C3: a started action completes by itself: a frame that begins with an   *)
(* action in progress keeps it while the accumulated time stays below      *)
(* 600 ms and ends it in the frame where the time reaches 600 ms, leaving  *)
(* (with zero intent) the Idling state of the facing held; no action is in *)
(* progress with 600 ms accumulated; and an action in progress always      *)
(* eventually ends                                                         *)
(***************************************************************************)
C3_EndOfFrame ==
    /\ act.current_action # None => act.action_progress < 600
    /\ (EndOfFrame /\ pre.act.current_action # None)
       => IF pre.act.action_progress + dt < 600
          THEN /\ act.current_action = pre.act.current_action
               /\ act.action_progress = pre.act.action_progress + dt
          ELSE /\ act.current_action = None
               /\ Intent = ZERO
                    => anim.state = IdlingOf(get_direction(pre.anim.state))

C3_ActionCompletes ==
    /\ []C3_EndOfFrame
    /\ (act.current_action # None) ~> (act.current_action = None)

C3_Witness ==
    /\ EndOfFrame
    /\ pre.act.current_action # None
    /\ pre.act.action_progress + dt >= 600
    /\ act.current_action = None
    /\ Intent = ZERO
    /\ anim.state \in IdlingStates

(***************************************************************************)
(* C4: update_animation_movement leaves the PlayerAnimation untouched      *)
(* whenever it runs with an action in progress, and over a frame that      *)
(* begins and ends with the action in progress the animation state, and so *)
(* the facing, stays what it was, whatever the intent                      *)
(***************************************************************************)
C4_ActionSuppressesMovementAnimation ==
    /\ [][(pc = "Update" /\ chain = 1 /\ chain' = 2 /\ act.current_action # None)
            => anim' = anim]_vars
    /\ [](EndOfFrame /\ pre.act.current_action # None /\ act.current_action # None
            => anim.state = pre.anim.state)

C4_Witness ==
    /\ pc = "Update" /\ chain = 2
    /\ act.current_action # None
    /\ Intent # ZERO
    /\ MovementState(Intent, get_direction(anim.state)) # anim.state

(***************************************************************************)
(* C5: apply_movement never changes the position of the player while an    *)
(* action is in progress                                                   *)
(***************************************************************************)
C5_NoMovementDuringAction ==
    (EndOfFrame /\ pre.act.current_action # None /\ act.current_action # None)
    => actors[1].pos = ZERO

(***************************************************************************)
(* The collision resolver on its own: one run of apply_movement in a       *)
(* Gameplay frame, over two actors (the player and an enemy, in either     *)
(* query order) and over the tilemap layers, from every combination of the *)
(* positions, intents, frame times and map contents below.                 *)
(***************************************************************************)
\* the maps are MapSize x MapSize tiles
MapSize == 3
Cells == (0..(MapSize - 1)) \X (0..(MapSize - 1))

\* a layer of plain tiles but for one cell, which holds `kind`
Layer(special, kind, translation) ==
    [size |-> <<MapSize, MapSize>>,
     grid |-> <<TILE_SIZE * 1000, TILE_SIZE * 1000>>,
     translation |-> translation,
     scale |-> TILE_SCALE,
     tiles |-> [c \in Cells |-> IF c = special THEN kind ELSE "Tile"]]

\* the offset of the second layer of a map of two layers
LayerOffset == <<12000, -12000>>

\* no map; one layer with an obstacle or a hole; two layers, the obstacle on
\* the second one
MoveMaps ==
    {<<>>}
    \cup {<<Layer(c, k, ZERO)>> : c \in Cells, k \in {"Obstacle", "Empty"}}
    \cup {<<Layer(c, "Tile", ZERO), Layer(c, "Obstacle", LayerOffset)>> : c \in Cells}

MoveDeltaTimes == {30, 60}
AxisIntents == {<<1000, 0>>, <<-1000, 0>>, <<0, 1000>>, <<0, -1000>>}
Intents == {ZERO} \cup AxisIntents \cup {<<707 * x, 707 * y>> : x, y \in {-1, 1}}

PlayerPositions ==
    {<<x, y>> : x, y \in {-24000, -12000, 0, 12000}}
        \cup {<<-84000, 0>>, <<0, 84000>>}
EnemyPositions == {<<12000, 0>>, <<-84000, 12000>>}
EnemyIntents == {ZERO, <<1000, 0>>, <<-1000, 0>>, <<0, 1000>>}

\* enemy.rs: an enemy moves at an eighth of the player's speed
EnemyActor == [PlayerActor EXCEPT !.max_speed = PLAYER_MAX_SPEED \div 8]

InitMove ==
    /\ gameState = "Gameplay"
    /\ nextState = "Unchanged"
    /\ pc = "move"
    /\ chain = 0
    /\ moved = FALSE
    /\ keys = {}
    /\ dt \in MoveDeltaTimes
    /\ anim = PlayerAnimationNew
    /\ act = PlayerActionStateDefault
    /\ \E p1 \in PlayerPositions, i1 \in Intents, p2 \in EnemyPositions,
          i2 \in EnemyIntents :
           LET player == [PlayerActor EXCEPT !.pos = p1, !.intent = i1]
               enemy == [EnemyActor EXCEPT !.pos = p2, !.intent = i2]
           IN  actors \in {<<player, enemy>>, <<enemy, player>>}
    /\ tilemaps \in MoveMaps
    /\ camera = CameraDefault
    /\ world = WorldDefault
    /\ sprite = [index |-> get_atlas_index(PlayerAnimationNew), anchor |-> ZERO]
    /\ cues = 0
    /\ pre = actors

\* apply_movement runs once in the frame
MoveActors ==
    /\ pc = "move"
    /\ gameState = "Gameplay"
    /\ pre' = actors
    /\ actors' = apply_movement(actors, tilemaps, dt)
    /\ pc' = "moved"
    /\ UNCHANGED <<gameState, nextState, chain, moved, keys, dt, anim, act,
                   tilemaps, camera, world, sprite, cues>>

NextMove == MoveActors

SpecMove == InitMove /\ [][NextMove]_vars

AfterMove == pc = "moved"
ActorIds == 1..Len(actors)
Plus(p, d) == <<p[1] + d[1], p[2] + d[2]>>

\* the probe of actor a maps to an obstacle tile of some layer
Obstructed(a) ==
    \E k \in 1..Len(tilemaps) : ObstacleAt(FuturePosition(a, dt), tilemaps[k])

(***************************************************************************)
(* C6: an actor whose prospective probe position maps, on any layer, to a  *)
(* tile with the Obstacle marker is not moved at all in that frame         *)
(***************************************************************************)
C6_ObstacleBlocksBothAxes ==
    AfterMove =>
        \A i \in ActorIds :
            (\E k \in 1..Len(tilemaps) :
                LET cell == TilePosFromWorldPos(FuturePosition(pre[i], dt), tilemaps[k])
                IN  cell # NoTile /\ tilemaps[k].tiles[cell] = "Obstacle")
            => actors[i].pos = pre[i].pos

\* a diagonal move whose probe is on an obstacle of the second layer only
C6_Witness ==
    /\ AfterMove
    /\ Len(tilemaps) = 2
    /\ pre[1].intent[1] # 0 /\ pre[1].intent[2] # 0
    /\ Obstructed(pre[1])
    /\ ~ObstacleAt(FuturePosition(pre[1], dt), tilemaps[1])
    /\ actors[1].pos = pre[1].pos

(***************************************************************************)
(* C7: for each of the four directions, with an obstacle tile in the cell  *)
(* next to the actor's own cell in that direction: an intent toward it     *)
(* whose move would carry the actor into that cell is not committed, and   *)
(* an intent away from it is committed in full.  Stated for the first      *)
(* actor of the query.                                                     *)
(***************************************************************************)
FourDirections == {<<1, 0>>, <<-1, 0>>, <<0, 1>>, <<0, -1>>}

C7_BlockedTowardFreeAway ==
    AfterMove =>
        \A k \in 1..Len(tilemaps), d \in FourDirections :
            LET a == pre[1]
                m == tilemaps[k]
                own == TilePosFromWorldPos(a.pos, m)
                ahead == Plus(own, d)
                delta == DeltaMovement(a, dt)
            IN  (own # NoTile /\ ahead \in Cells /\ m.tiles[ahead] = "Obstacle")
                => /\ (/\ a.intent = <<1000 * d[1], 1000 * d[2]>>
                       /\ TilePosFromWorldPos(Plus(a.pos, delta), m) = ahead)
                      => actors[1].pos = a.pos
                   /\ a.intent = <<-1000 * d[1], -1000 * d[2]>>
                      => actors[1].pos = Plus(a.pos, delta)

(***************************************************************************)
(* C8: every actor is resolved on its own: whether one actor's move is     *)
(* blocked has no effect on whether another actor's unobstructed move is   *)
(* committed, and no actor is moved by more than its own delta             *)
(***************************************************************************)
C8_ActorsResolvedIndependently ==
    AfterMove =>
        \A i \in ActorIds :
            /\ actors[i].pos \in {pre[i].pos, Plus(pre[i].pos, DeltaMovement(pre[i], dt))}
            /\ \A j \in ActorIds \ {i} :
                   (Obstructed(pre[j]) /\ ~Obstructed(pre[i]))
                   => actors[i].pos = Plus(pre[i].pos, DeltaMovement(pre[i], dt))

(***************************************************************************)
(* C9: an actor whose intent is zero is never moved, whatever its speed,   *)
(* the frame time and the tilemaps hold                                    *)
(***************************************************************************)
C9_ZeroIntentNeverMoves ==
    AfterMove =>
        \A i \in ActorIds : pre[i].intent = ZERO => actors[i].pos = pre[i].pos

\* the second actor stands still while the first one is moved
C9_Witness ==
    /\ AfterMove
    /\ pre[2].intent = ZERO
    /\ actors[2].pos = pre[2].pos
    /\ pre[1].intent # ZERO
    /\ actors[1].pos # pre[1].pos
    /\ tilemaps # <<>>

(***************************************************************************)
(* C10: an actor with a nonzero intent is moved by its full delta when on  *)
(* every layer its probe maps outside the grid, to a cell with no tile     *)
(* entity or to a tile without the Obstacle marker, and when there is no   *)
(* tilemap at all                                                          *)
(***************************************************************************)
C10_PermissiveCasesMove ==
    AfterMove =>
        \A i \in ActorIds :
            (/\ pre[i].intent # ZERO
             /\ \A k \in 1..Len(tilemaps) :
                    LET cell == TilePosFromWorldPos(FuturePosition(pre[i], dt), tilemaps[k])
                    IN  \/ cell = NoTile
                        \/ tilemaps[k].tiles[cell] = "Empty"
                        \/ tilemaps[k].tiles[cell] = "Tile")
            => actors[i].pos = Plus(pre[i].pos, DeltaMovement(pre[i], dt))

(***************************************************************************)
(* The PlayerAnimation component on its own: from PlayerAnimation::new(),  *)
(* its methods called in any order with any argument.  update_timer is     *)
(* called with 1..MaxHalfPeriods halves of the period of the current       *)
(* timer.  pre is the history of the calls.  Of the last call: the         *)
(* instance before it, its name, the state passed to update_state, the     *)
(* result of changed(), the index and the anchor sampled.  Of the calls    *)
(* before: the time (in half periods) passed to update_timer since the     *)
(* last transition, the frame at that moment, and whether the timer        *)
(* completed a cycle in its last update_timer call.                        *)
(***************************************************************************)
MaxHalfPeriods == 4

\* the record of a call of method op on the current instance
LastCall(op) ==
    [pre EXCEPT !.before = anim, !.op = op, !.state = anim.state,
                !.result = FALSE, !.index = 0, !.anchor = ZERO]

InitAnim ==
    /\ gameState = "Gameplay"
    /\ nextState = "Unchanged"
    /\ pc = "anim"
    /\ chain = 0
    /\ moved = FALSE
    /\ keys = {}
    /\ dt = 0
    /\ anim = PlayerAnimationNew
    /\ act = PlayerActionStateDefault
    /\ actors = <<PlayerActor>>
    /\ tilemaps = <<>>
    /\ camera = CameraDefault
    /\ world = WorldDefault
    /\ sprite = [index |-> get_atlas_index(PlayerAnimationNew), anchor |-> ZERO]
    /\ cues = 0
    /\ pre = [before |-> PlayerAnimationNew, op |-> "new", state |-> "IdlingB",
              result |-> FALSE, index |-> 0, anchor |-> ZERO,
              halves |-> 0, frame0 |-> 0, completed |-> FALSE]

AnimUnchanged ==
    UNCHANGED <<gameState, nextState, pc, chain, moved, keys, act, actors,
                tilemaps, camera, world, sprite, cues>>

CallUpdateTimer ==
    /\ pc = "anim"
    /\ \E k \in 1..MaxHalfPeriods :
           /\ pre.halves + k <= MaxHalfPeriods
           /\ dt' = (k * anim.timer.duration) \div 2
           /\ anim' = update_timer(anim, dt')
           /\ pre' = [LastCall("update_timer") EXCEPT
                         !.halves = @ + k,
                         !.completed = anim.timer.elapsed + dt' >= anim.timer.duration]
    /\ AnimUnchanged

CallUpdateState ==
    /\ pc = "anim"
    /\ \E state \in PlayerAnimationState :
           /\ anim' = update_state(anim, state)
           /\ pre' = IF anim.state # state
                     THEN [LastCall("update_state") EXCEPT
                              !.state = state, !.halves = 0, !.frame0 = 0,
                              !.completed = FALSE]
                     ELSE [LastCall("update_state") EXCEPT !.state = state]
    /\ UNCHANGED dt
    /\ AnimUnchanged

CallSetStateChanged ==
    /\ pc = "anim"
    /\ \E state_changed \in BOOLEAN :
           anim' = set_state_changed(anim, state_changed)
    /\ pre' = LastCall("set_state_changed")
    /\ UNCHANGED dt
    /\ AnimUnchanged

CallChanged ==
    /\ pc = "anim"
    /\ pre' = [LastCall("changed") EXCEPT !.result = changed(anim)]
    /\ UNCHANGED <<dt, anim>>
    /\ AnimUnchanged

\* get_atlas_index() and get_anchor_point(frame), as update_animation_atlas
\* calls them
CallSample ==
    /\ pc = "anim"
    /\ pre' = [LastCall("sample") EXCEPT
                  !.index = get_atlas_index(anim),
                  !.anchor = get_anchor_point(anim.state, anim.frame)]
    /\ UNCHANGED <<dt, anim>>
    /\ AnimUnchanged

NextAnim ==
    \/ CallUpdateTimer
    \/ CallUpdateState
    \/ CallSetStateChanged
    \/ CallChanged
    \/ CallSample

SpecAnim == InitAnim /\ [][NextAnim]_vars

(***************************************************************************)
(* C11: update_state(S) on an instance whose state is S already leaves the *)
(* whole instance (frame, timer, dirty flag) as it was, and a second       *)
(* update_state(S) leaves what the first one gave                          *)
(***************************************************************************)
C11_UpdateStateSameIsNoOp ==
    /\ (pre.op = "update_state" /\ pre.before.state = pre.state)
       => anim = pre.before
    /\ \A state \in PlayerAnimationState :
           update_state(update_state(anim, state), state) = update_state(anim, state)

\* a repeated update_state on an instance in the middle of its cycle, at frame 1
C11_Witness ==
    /\ pre.op = "update_state"
    /\ pre.before.state = pre.state
    /\ anim.timer.elapsed > 0
    /\ anim.frame = 1
    /\ ~anim.state_changed

(***************************************************************************)
(* C12: update_state(S) on an instance in another state gives state S,     *)
(* frame 0, the dirty flag set and a fresh timer with nothing elapsed, of  *)
(* 500 ms for the Idling states, 150 ms for the Walking states and 300 ms  *)
(* for the Hoeing, Watering and Chopping states                            *)
(***************************************************************************)
C12_UpdateStateReplaces ==
    (pre.op = "update_state" /\ pre.before.state # pre.state)
    => /\ anim.state = pre.state
       /\ anim.frame = 0
       /\ anim.state_changed
       /\ anim.timer.elapsed = 0
       /\ ~anim.timer.finished
       /\ anim.timer.duration =
              IF pre.state \in {"IdlingT", "IdlingB", "IdlingL", "IdlingR"} THEN 500
              ELSE IF pre.state \in {"WalkingT", "WalkingB", "WalkingL", "WalkingR"}
              THEN 150
              ELSE 300

\* a transition to a Walking state from an instance at frame 1, in mid cycle,
\* with the dirty flag cleared
C12_Witness ==
    /\ pre.op = "update_state"
    /\ pre.before.state # pre.state
    /\ pre.state \in WalkingStates
    /\ pre.before.frame = 1
    /\ pre.before.timer.elapsed > 0
    /\ ~pre.before.state_changed
    /\ anim.timer.duration = 150

(***************************************************************************)
(* C13: with no transition in between, when the time passed to             *)
(* update_timer sums to one period of the timer the frame has advanced by  *)
(* 1 modulo 2, and when it sums to two periods the frame is back at its    *)
(* starting value, however the time is divided into calls                  *)
(***************************************************************************)
C13_FramePerPeriod ==
    /\ pre.halves = 2 => anim.frame = (pre.frame0 + 1) % 2
    /\ pre.halves = 4 => anim.frame = pre.frame0

(***************************************************************************)
(* C14: the index get_atlas_index returns is the entry of the table for    *)
(* the state plus the frame, which is 16 * row + 2 * column + frame with   *)
(* the rows B, T, L, R = 0..3 and the columns Idling, Walking, Hoeing,     *)
(* Chopping, Watering = 0..4                                               *)
(***************************************************************************)
C14_AtlasIndexTable ==
    pre.op = "sample" =>
        LET base == [IdlingB |-> 0, WalkingB |-> 2, HoeingB |-> 4, ChoppingB |-> 6,
                     WateringB |-> 8, IdlingT |-> 16, WalkingT |-> 18, HoeingT |-> 20,
                     ChoppingT |-> 22, WateringT |-> 24, IdlingL |-> 32,
                     WalkingL |-> 34, HoeingL |-> 36, ChoppingL |-> 38,
                     WateringL |-> 40, IdlingR |-> 48, WalkingR |-> 50,
                     HoeingR |-> 52, ChoppingR |-> 54, WateringR |-> 56]
            row == CASE get_direction(anim.state) = "Bottom" -> 0
                     [] get_direction(anim.state) = "Top" -> 1
                     [] get_direction(anim.state) = "Left" -> 2
                     [] get_direction(anim.state) = "Right" -> 3
            column == CASE anim.state \in IdlingStates -> 0
                        [] anim.state \in WalkingStates -> 1
                        [] anim.state \in HoeingStates -> 2
                        [] anim.state \in ChoppingStates -> 3
                        [] anim.state \in WateringStates -> 4
        IN  /\ DOMAIN base = PlayerAnimationState
            /\ pre.index = base[anim.state] + anim.frame
            /\ pre.index = 16 * row + 2 * column + anim.frame

\* HoeingT sampled at frame 1
C14_Witness ==
    /\ pre.op = "sample"
    /\ anim.state = "HoeingT"
    /\ anim.frame = 1
    /\ pre.index = 21

(***************************************************************************)
(* C15: the anchor get_anchor_point returns is zero for every Idling and   *)
(* every Walking state at both frames, so it is nonzero for action states  *)
(* only; for HoeingL it is (0,0) at frame 0 and (0.2,0) at frame 1         *)
(***************************************************************************)
C15_AnchorZeroOffActions ==
    pre.op = "sample" =>
        /\ anim.state \in IdlingStates \cup WalkingStates => pre.anchor = <<0, 0>>
        /\ pre.anchor # <<0, 0>>
             => anim.state \in HoeingStates \cup WateringStates \cup ChoppingStates
        /\ anim.state = "HoeingL"
             => pre.anchor = IF anim.frame = 0 THEN <<0, 0>> ELSE <<20, 0>>
        /\ \A s \in IdlingStates \cup WalkingStates, frame \in 0..1 :
               get_anchor_point(s, frame) = <<0, 0>>

\* HoeingL sampled at frame 1
C15_Witness ==
    /\ pre.op = "sample"
    /\ anim.state = "HoeingL"
    /\ anim.frame = 1
    /\ pre.anchor = <<20, 0>>

\* a Walking state sampled at frame 1
C15_WitnessWalking ==
    /\ pre.op = "sample"
    /\ anim.state \in WalkingStates
    /\ anim.frame = 1
    /\ pre.anchor = <<0, 0>>

(***************************************************************************)
(* C16: changed() returns true exactly when the dirty flag is set or the   *)
(* timer of the instance completed a cycle in its most recent update_timer *)
(* call, and it leaves the instance as it was                              *)
(***************************************************************************)
C16_ChangedIsDirtyOrCycle ==
    pre.op = "changed" =>
        /\ pre.result = (anim.state_changed \/ pre.completed)
        /\ anim = pre.before

\* true through the timer alone, and false after a call that completed no cycle
C16_Witness ==
    /\ pre.op = "changed"
    /\ pre.result
    /\ ~anim.state_changed
    /\ pre.completed

C16_WitnessFalse ==
    /\ pre.op = "changed"
    /\ ~pre.result
    /\ pre.halves > 0

(***************************************************************************)
(* C17: the dirty flag is false at the end of every frame, and where       *)
(* changed() is sampled the flag is set only if update_state replaced the  *)
(* instance in this frame (its timer is new) or the instance was           *)
(* constructed before this frame, its first: never from an earlier frame   *)
(***************************************************************************)
C17_DirtyFlagClearedEachTick ==
    /\ EndOfFrame => ~anim.state_changed
    /\ (pc = "Update" /\ chain \in 2..3 /\ anim.state_changed)
       => \/ anim.timer.elapsed = 0 /\ ~anim.timer.finished
          \/ pre.anim = PlayerAnimationNew

\* the end of a frame with a transition, after the first frame
C17_Witness ==
    /\ EndOfFrame
    /\ ~pre.anim.state_changed
    /\ anim.state # pre.anim.state
    /\ ~anim.state_changed

(***************************************************************************)
(* C19: at the end of every frame the sprite shows the atlas index and the *)
(* anchor of the state and frame the animation has then: a timer expiry    *)
(* and a state transition are on the sprite in the frame they happen       *)
(***************************************************************************)
C19_SpriteShowsCurrentFrame ==
    EndOfFrame =>
        /\ sprite.index = get_atlas_index(anim)
        /\ sprite.anchor = get_anchor_point(anim.state, anim.frame)

\* a timer expiry with no transition, after the first frame
C19_Witness ==
    /\ EndOfFrame
    /\ ~pre.anim.state_changed
    /\ anim.state = pre.anim.state
    /\ anim.frame # pre.anim.frame
    /\ sprite.index = get_atlas_index(anim)

\* a transition in a frame in which the timer of the old state expired
C19_WitnessTransition ==
    /\ EndOfFrame
    /\ ~pre.anim.state_changed
    /\ anim.state # pre.anim.state
    /\ pre.anim.timer.elapsed + dt >= pre.anim.timer.duration
    /\ sprite.index = get_atlas_index(anim)

(***************************************************************************)
(* The frame loop at short frame times: the same systems in the same       *)
(* schedule, with frames of 50 ms steps, shorter than the period of the    *)
(* Walking timer, so that a walking frame can pass with no cycle completed *)
(***************************************************************************)
MaxFineSteps == 2
FineDeltaTimes == {50 * k : k \in 1..MaxFineSteps}
\* the action keys newly pressed in a frame
FineKeySets == {{}, {"F"}}

BeginFrameFine ==
    /\ pc \in {"begin", "end"}
    /\ gameState' = IF nextState # "Unchanged" THEN nextState ELSE gameState
    /\ nextState' = "Unchanged"
    /\ \E pressed \in FineKeySets : keys' = pressed
    /\ \E delta \in FineDeltaTimes : dt' = delta
    /\ pc' = "TickTimers"
    /\ chain' = 0
    /\ moved' = FALSE
    /\ cues' = 0
    /\ actors' = [actors EXCEPT ![1].pos = ZERO]
    /\ pre' = Snapshot
    /\ UNCHANGED <<anim, act, tilemaps, camera, world, sprite>>

NextFine ==
    \/ BeginFrameFine
    \/ UpdateAnimationTimer
    \/ RecordPlayerDirectionalInput
    \/ RecordPlayerActionsInput
    \/ UpdatePlayerActions
    \/ UpdateAnimationMovement
    \/ UpdateAnimationAtlas
    \/ TriggerStepSoundEffect
    \/ ApplyMovement
    \/ PauseOrContinueGameplay

SpecFine == Init /\ [][NextFine]_vars

(***************************************************************************)
(* C18: a footstep cue is emitted in a frame exactly when, as sampled in   *)
(* that frame, the state is a Walking state and the state changed in the   *)
(* frame or the frame timer completed a cycle in it; at most one cue per   *)
(* frame; none in a frame over which a walking player's state and frame    *)
(* are both unchanged                                                      *)
(***************************************************************************)
C18_FootstepCue ==
    EndOfFrame =>
        /\ cues <= 1
        /\ cues = 1 <=>
              /\ anim.state \in {"WalkingT", "WalkingB", "WalkingL", "WalkingR"}
              /\ \/ anim.state # pre.anim.state
                 \/ pre.anim.timer.elapsed + dt >= pre.anim.timer.duration
        /\ (/\ pre.anim.state \in {"WalkingT", "WalkingB", "WalkingL", "WalkingR"}
            /\ anim.state = pre.anim.state
            /\ anim.frame = pre.anim.frame)
           => cues = 0

(***************************************************************************)
(* C20: the facing at the end of a frame differs from the facing at the    *)
(* end of the frame before only if the later frame ends with no action in  *)
(* progress and has a nonzero intent; update_player_actions (action start  *)
(* and completion) never changes the facing, and update_animation_movement *)
(* does not change it with a zero intent                                   *)
(***************************************************************************)
C20_FacingChangesOnlyByMovement ==
    /\ [](EndOfFrame /\ get_direction(anim.state) # get_direction(pre.anim.state)
            => act.current_action = None /\ Intent # ZERO)
    /\ [][(pc = "Update" /\ chain = 0 /\ chain' = 1)
            => get_direction(anim'.state) = get_direction(anim.state)]_vars
    /\ [][(pc = "Update" /\ chain = 1 /\ chain' = 2 /\ Intent = ZERO)
            => get_direction(anim'.state) = get_direction(anim.state)]_vars

\* the facing turned in a frame in which an action completed
C20_Witness ==
    /\ EndOfFrame
    /\ get_direction(anim.state) # get_direction(pre.anim.state)
    /\ Intent # ZERO
    /\ pre.act.current_action # None
    /\ act.current_action = None

\* an action started from a facing other than Bottom, into its action state
C20_WitnessStart ==
    /\ EndOfFrame
    /\ pre.act.current_action = None
    /\ act.current_action # None
    /\ anim.state \in HoeingStates \cup WateringStates \cup ChoppingStates
    /\ get_direction(anim.state) = "Left"

\* an action completed with zero intent from a facing other than Bottom
C20_WitnessCompletion ==
    /\ EndOfFrame
    /\ pre.act.current_action # None
    /\ act.current_action = None
    /\ Intent = ZERO
    /\ pre.anim.state # anim.state
    /\ get_direction(anim.state) = "Top"

(***************************************************************************)
(* C21: after update_animation_movement has run with no action in progress *)
(* and a nonzero intent, the state is WalkingT or WalkingB (by the sign of  *)
(* intent.y) exactly when |intent.y| > |intent.x|, and WalkingR or         *)
(* WalkingL (by the sign of intent.x) otherwise, ties included: a diagonal *)
(* intent faces Left or Right                                              *)
(***************************************************************************)
C21_WalkingDirectionTieBreak ==
    (pc = "Update" /\ chain = 2 /\ act.current_action = None /\ Intent # ZERO)
    => LET x == Intent[1]
           y == Intent[2]
           vertical == y * y > x * x
       IN  /\ anim.state = IF vertical
                           THEN (IF y > 0 THEN "WalkingT" ELSE "WalkingB")
                           ELSE (IF x > 0 THEN "WalkingR" ELSE "WalkingL")
           /\ (x # 0 /\ y # 0) => anim.state \in {"WalkingL", "WalkingR"}

\* up and right held together: the player faces Right
C21_Witness ==
    /\ pc = "Update" /\ chain = 2
    /\ act.current_action = None
    /\ Intent = <<707, 707>>
    /\ anim.state = "WalkingR"

(***************************************************************************)
(* C22: at the end of every frame in which no action is in progress after  *)
(* update_player_actions, the state is a Walking state exactly when the    *)
(* intent is nonzero and an Idling state exactly when it is zero           *)
(***************************************************************************)
C22_ActivityFollowsIntent ==
    (EndOfFrame /\ act.current_action = None)
    => /\ anim.state \in {"WalkingT", "WalkingB", "WalkingL", "WalkingR"}
            <=> Intent # ZERO
       /\ anim.state \in {"IdlingT", "IdlingB", "IdlingL", "IdlingR"}
            <=> Intent = ZERO

\* the player stops: a frame that began walking ends Idling with zero intent
C22_Witness ==
    /\ EndOfFrame
    /\ act.current_action = None
    /\ pre.anim.state \in WalkingStates
    /\ Intent = ZERO
    /\ anim.state \in IdlingStates

\* an action ends in a frame with a nonzero intent: the frame ends Walking
C22_WitnessAfterAction ==
    /\ EndOfFrame
    /\ pre.act.current_action # None
    /\ act.current_action = None
    /\ Intent # ZERO
    /\ anim.state \in WalkingStates

(***************************************************************************)
(* The frame loop at frames of 150 ms steps, with a record of the frames   *)
(* since the player, at rest (an Idling state, no action in progress), was *)
(* given the intent it has held from then on: pre.trail has one entry for  *)
(* each of the first MaxTrail of these frames, with the state at the start *)
(* of the frame, the state, the frame and the sprite's atlas index at its  *)
(* end, and the frame time.                                                *)
(***************************************************************************)
MaxWalkSteps == 1
WalkDeltaTimes == {150 * k : k \in 1..MaxWalkSteps}
MaxTrail == 3

\* the entry of the frame that has just ended
TrailEntry ==
    [from |-> pre.anim.state, state |-> anim.state, frame |-> anim.frame,
     index |-> sprite.index, intent |-> Intent, dt |-> dt]

NextTrail ==
    IF pc = "begin" THEN pre.trail
    ELSE IF pre.trail # <<>> /\ pre.trail[Len(pre.trail)].intent = Intent
    THEN IF Len(pre.trail) < MaxTrail THEN Append(pre.trail, TrailEntry)
         ELSE pre.trail
    ELSE IF /\ pre.anim.state \in IdlingStates
            /\ pre.act.current_action = None
            /\ Intent # ZERO
    THEN <<TrailEntry>>
    ELSE <<>>

InitWalk ==
    /\ gameState = "Gameplay"
    /\ nextState = "Unchanged"
    /\ pc = "begin"
    /\ chain = 0
    /\ moved = FALSE
    /\ keys = {}
    /\ dt = 0
    /\ anim = PlayerAnimationNew
    /\ act = PlayerActionStateDefault
    /\ actors = <<PlayerActor>>
    /\ tilemaps = <<>>
    /\ camera = CameraDefault
    /\ world = WorldDefault
    /\ sprite = [index |-> get_atlas_index(PlayerAnimationNew), anchor |-> ZERO]
    /\ cues = 0
    /\ pre = [anim |-> PlayerAnimationNew, act |-> PlayerActionStateDefault,
              trail |-> <<>>]

BeginFrameWalk ==
    /\ pc \in {"begin", "end"}
    /\ gameState' = IF nextState # "Unchanged" THEN nextState ELSE gameState
    /\ nextState' = "Unchanged"
    /\ \E pressed \in FineKeySets : keys' = pressed
    /\ \E delta \in WalkDeltaTimes : dt' = delta
    /\ pc' = "TickTimers"
    /\ chain' = 0
    /\ moved' = FALSE
    /\ cues' = 0
    /\ actors' = [actors EXCEPT ![1].pos = ZERO]
    /\ pre' = [anim |-> anim, act |-> act, trail |-> NextTrail]
    /\ UNCHANGED <<anim, act, tilemaps, camera, world, sprite>>

NextWalk ==
    \/ BeginFrameWalk
    \/ UpdateAnimationTimer
    \/ RecordPlayerDirectionalInput
    \/ RecordPlayerActionsInput
    \/ UpdatePlayerActions
    \/ UpdateAnimationMovement
    \/ UpdateAnimationAtlas
    \/ TriggerStepSoundEffect
    \/ ApplyMovement
    \/ PauseOrContinueGameplay

SpecWalk == InitWalk /\ [][NextWalk]_vars

(***************************************************************************)
(* C23: from the player idle (no action in progress) and facing Bottom,    *)
(* when the intent becomes (0,-1) and is held for two more frames of       *)
(* 150 ms each, the state is WalkingB in the three frames, the frame goes  *)
(* 0, 1, 0 and the atlas index on the sprite goes 2, 3, 2                  *)
(***************************************************************************)
C23_WalkDownScenario ==
    (/\ Len(pre.trail) >= 3
     /\ pre.trail[1].from = "IdlingB"
     /\ pre.trail[1].intent = <<0, -1000>>
     /\ pre.trail[2].dt = 150
     /\ pre.trail[3].dt = 150)
    => /\ \A i \in 1..3 : pre.trail[i].state = "WalkingB"
       /\ <<pre.trail[1].frame, pre.trail[2].frame, pre.trail[3].frame>> = <<0, 1, 0>>
       /\ <<pre.trail[1].index, pre.trail[2].index, pre.trail[3].index>> = <<2, 3, 2>>

C23_Witness ==
    /\ Len(pre.trail) >= 3
    /\ pre.trail[1].from = "IdlingB"
    /\ pre.trail[1].intent = <<0, -1000>>
    /\ pre.trail[2].dt = 150
    /\ pre.trail[3].dt = 150
    /\ pre.trail[3].index = 2

(***************************************************************************)
(* C24: while an action animation state is active (frame times dividing    *)
(* 300 ms) the frame sampled by update_animation_atlas is 0 until 300 ms   *)
(* have accumulated since the action started and 1 from 300 ms until the   *)
(* action completes at 600 ms; frame 0 is not sampled again while the      *)
(* action state lasts                                                      *)
(***************************************************************************)
ActionStates == HoeingStates \cup WateringStates \cup ChoppingStates

C24_WitnessLate ==
    /\ EndOfFrame
    /\ anim.state = "ChoppingB"
    /\ act.action_progress = 550
    /\ anim.frame = 1

C24_WitnessReturn ==
    /\ EndOfFrame
    /\ pre.anim.state = "ChoppingB"
    /\ pre.act.action_progress = 550
    /\ anim.state = "IdlingB"

(***************************************************************************)
(* record_player_directional_input on its own: every set of direction keys *)
(* held in a frame, after every intent the frame before may have left.     *)
(* keys is the set of direction keys held; pre.before is the intent before *)
(* the call.                                                               *)
(***************************************************************************)
DirectionKeys == {"W", "S", "A", "D", "ArrowUp", "ArrowDown", "ArrowLeft", "ArrowRight"}
HeldKeySets == SUBSET DirectionKeys

InitInput ==
    /\ gameState = "Gameplay"
    /\ nextState = "Unchanged"
    /\ pc = "sample"
    /\ chain = 0
    /\ moved = FALSE
    /\ keys = {}
    /\ dt = 0
    /\ anim = PlayerAnimationNew
    /\ act = PlayerActionStateDefault
    /\ actors = <<PlayerActor>>
    /\ tilemaps = <<>>
    /\ camera = CameraDefault
    /\ world = WorldDefault
    /\ sprite = [index |-> get_atlas_index(PlayerAnimationNew), anchor |-> ZERO]
    /\ cues = 0
    /\ pre = [before |-> ZERO, called |-> FALSE]

\* the keys held in the next Gameplay frame
SampleHeldKeys ==
    /\ pc = "sample"
    /\ \E held \in HeldKeySets : keys' = held
    /\ pc' = "record"
    /\ UNCHANGED <<gameState, nextState, chain, moved, dt, anim, act, actors,
                   tilemaps, camera, world, sprite, cues, pre>>

CallRecordPlayerDirectionalInput ==
    /\ pc = "record"
    /\ actors' = [actors EXCEPT ![1].intent = DirectionalIntent(keys)]
    /\ pre' = [before |-> actors[1].intent, called |-> TRUE]
    /\ pc' = "sample"
    /\ UNCHANGED <<gameState, nextState, chain, moved, keys, dt, anim, act,
                   tilemaps, camera, world, sprite, cues>>

NextInput == SampleHeldKeys \/ CallRecordPlayerDirectionalInput

SpecInput == InitInput /\ [][NextInput]_vars

Sign(n) == IF n > 0 THEN 1 ELSE IF n < 0 THEN -1 ELSE 0
Held(k1, k2) == IF k1 \in keys \/ k2 \in keys THEN 1 ELSE 0
\* length 1 in thousandths, to the rounding of the components
UnitLength(v) ==
    /\ v[1] * v[1] + v[2] * v[2] >= 999 * 999
    /\ v[1] * v[1] + v[2] * v[2] <= 1000 * 1000

(***************************************************************************)
(* C25: the intent after record_player_directional_input is given by the   *)
(* direction keys held in that frame alone: each axis contributes -1, 0 or *)
(* +1, opposite keys cancel, and the result is the zero vector or has unit *)
(* length; the intent before the call has no influence                     *)
(***************************************************************************)
C25_IntentFromHeldKeys ==
    (pc = "sample" /\ pre.called)
    => LET x == Held("D", "ArrowRight") - Held("A", "ArrowLeft")
           y == Held("W", "ArrowUp") - Held("S", "ArrowDown")
       IN  /\ Sign(Intent[1]) = x
           /\ Sign(Intent[2]) = y
           /\ (x # 0 /\ y # 0) => Intent[1] * Intent[1] = Intent[2] * Intent[2]
           /\ IF x = 0 /\ y = 0 THEN Intent = ZERO ELSE UnitLength(Intent)

C25_Witness ==
    /\ pc = "sample" /\ pre.called
    /\ keys = {"W", "ArrowLeft", "D"}
    /\ pre.before = <<-707, -707>>
    /\ Intent = <<0, 1000>>

C25_WitnessDiagonal ==
    /\ pc = "sample" /\ pre.called
    /\ keys = {"S", "ArrowRight"}
    /\ pre.before = <<0, 1000>>
    /\ Intent = <<707, -707>>

(***************************************************************************)
(* The camera systems of the PostUpdate set in Gameplay: camera_zoom on a  *)
(* mouse wheel event, camera_follow_player, and calculate_camera_bounds on *)
(* a WindowResized or CameraScaleEvent, ordered against one another by     *)
(* nothing.  The window is resized by the user and the player is moved by  *)
(* apply_movement between the frames.  Init is the state after             *)
(* OnEnter(Gameplay) has run calculate_camera_bounds.                      *)
(***************************************************************************)
MaxWindowSteps == 3
WindowSizes == {<<1280 * k, 720 * k>> : k \in 1..MaxWindowSteps}
\* total scrolls of a frame, in lines: the factors 0.5 and 2.0 they give keep
\* the scale a whole number of hundredths
ScrollAmounts == {5, -10}
\* positions of the player inside the limits of apply_screen_wrap
CameraPlayerPositions ==
    {<<x * 1000, y * 1000>> : x \in {-1264, 0, 300}, y \in {-816, 200}}

InitCamera ==
    /\ gameState = "Gameplay"
    /\ nextState = "Unchanged"
    /\ pc = "PostUpdate"
    /\ chain = 0
    /\ moved = FALSE
    /\ keys = {}
    /\ dt = 0
    /\ anim = PlayerAnimationNew
    /\ act = PlayerActionStateDefault
    /\ actors = <<PlayerActor>>
    /\ tilemaps = <<>>
    /\ \E size \in WindowSizes :
           camera = calculate_camera_bounds([CameraDefault EXCEPT !.window = size])
    /\ world = WorldDefault
    /\ sprite = [index |-> get_atlas_index(PlayerAnimationNew), anchor |-> ZERO]
    /\ cues = 0
    /\ pre = ZERO

CameraUnchanged ==
    UNCHANGED <<gameState, nextState, pc, chain, moved, keys, dt, anim, act,
                tilemaps, world, sprite, cues, pre>>

\* the user resizes the window: a WindowResized event
ResizeWindow ==
    /\ ~camera.failed
    /\ \E size \in WindowSizes \ {camera.window} :
           camera' = [camera EXCEPT !.window = size, !.event = TRUE, !.last = "resize"]
    /\ UNCHANGED actors
    /\ CameraUnchanged

CameraZoom ==
    /\ ~camera.failed
    /\ \E scroll_amount \in ScrollAmounts : camera' = camera_zoom(camera, scroll_amount)
    /\ UNCHANGED actors
    /\ CameraUnchanged

CalculateCameraBounds ==
    /\ ~camera.failed
    /\ camera.event
    /\ camera' = calculate_camera_bounds(camera)
    /\ UNCHANGED actors
    /\ CameraUnchanged

CameraFollowPlayer ==
    /\ ~camera.failed
    /\ camera' = camera_follow_player(camera, actors[1].pos)
    /\ UNCHANGED actors
    /\ CameraUnchanged

PlayerMoves ==
    /\ ~camera.failed
    /\ \E p \in CameraPlayerPositions \ {actors[1].pos} :
           actors' = [actors EXCEPT ![1].pos = p]
    /\ camera' = [camera EXCEPT !.last = "apply_movement"]
    /\ CameraUnchanged

NextCamera ==
    \/ ResizeWindow
    \/ CameraZoom
    \/ CalculateCameraBounds
    \/ CameraFollowPlayer
    \/ PlayerMoves

SpecCamera == InitCamera /\ [][NextCamera]_vars

Within(v, lo, hi) == lo <= v /\ v <= hi

(***************************************************************************)
(* C26: for every window size and every scale in [0.2, 1.0] CameraBounds   *)
(* has min <= max on both axes, and after camera_follow_player the camera  *)
(* centre is within the bounds (y down to min.y - 12) and is the player's  *)
(* position when the player is inside them; the step never fails           *)
(***************************************************************************)
C26_CameraWithinBounds ==
    /\ Within(camera.scale, 20, 100)
    /\ ~camera.failed
    /\ camera.min[1] <= camera.max[1]
    /\ camera.min[2] <= camera.max[2]
    /\ camera.last = "camera_follow_player"
       => LET lo_y == camera.min[2] - WRAP_Y_OFFSET * 1000
          IN  /\ Within(camera.pos[1], camera.min[1], camera.max[1])
              /\ Within(camera.pos[2], lo_y, camera.max[2])
              /\ (Within(actors[1].pos[1], camera.min[1], camera.max[1])
                  /\ Within(actors[1].pos[2], lo_y, camera.max[2])) => camera.pos = actors[1].pos

\* the same with the failure of the step and the order of the bounds left out
C26_FollowWithinValidBounds ==
    (/\ camera.last = "camera_follow_player"
     /\ ~camera.failed)
    => LET lo_y == camera.min[2] - WRAP_Y_OFFSET * 1000
       IN  /\ Within(camera.pos[1], camera.min[1], camera.max[1])
           /\ Within(camera.pos[2], lo_y, camera.max[2])
           /\ (Within(actors[1].pos[1], camera.min[1], camera.max[1])
               /\ Within(actors[1].pos[2], lo_y, camera.max[2])) => camera.pos = actors[1].pos

\* the view is wider than the map: the bounds are inverted
C26_BoundsInverted ==
    /\ camera.window[1] = 3840
    /\ camera.scale = 100
    /\ camera.min[1] > camera.max[1]

\* camera_follow_player has panicked in f32::clamp
C26_FollowPanics == camera.failed /\ camera.last = "camera_follow_player"

C27_WitnessMovedFirst ==
    pc = "Update" /\ moved /\ chain = 0 /\ gameState = "Gameplay" /\ Intent # ZERO

\* apply_movement has not run when the last of them has
C27_WitnessMovedLast ==
    pc = "Update" /\ ~moved /\ chain = 4 /\ gameState = "Gameplay" /\ Intent # ZERO

(***************************************************************************)
(* The screens.  A frame applies the pending NextState in StateTransition  *)
(* with the OnTransition and OnEnter systems (spawn_level, spawn_enemies), *)
(* then delivers at most one click to a button of the current screen, then *)
(* runs the Update schedule: destroy_on_enter in the PreUpdate set, then   *)
(* enter_gameplay_screen or pause_or_continue_gameplay.  The game starts   *)
(* on the Title screen, with the assets loaded or still loading.           *)
(***************************************************************************)
MaxGameplayEntries == 3

InitScreens ==
    /\ gameState = "Title"
    /\ nextState = "Unchanged"
    /\ pc = "Pointer"
    /\ chain = 0
    /\ moved = FALSE
    /\ keys = {}
    /\ dt = 0
    /\ anim = PlayerAnimationNew
    /\ act = PlayerActionStateDefault
    /\ actors = <<>>
    /\ tilemaps = <<>>
    /\ camera = CameraDefault
    /\ \E done \in BOOLEAN :
           world = [previous_state |-> "Splash", all_done |-> done, levels |-> 0,
                    enemies |-> 0, changed |-> FALSE,
                    exited |-> "Splash", settings_from |-> "Splash",
                    music |-> 0, music_entity |-> FALSE]
    /\ sprite = [index |-> get_atlas_index(PlayerAnimationNew), anchor |-> ZERO]
    /\ cues = 0
    /\ pre = ZERO

ScreensUnchanged ==
    UNCHANGED <<chain, moved, keys, dt, anim, act, actors, tilemaps, camera,
                sprite, cues, pre>>

\* the StateTransition schedule: OnExit(Gameplay) runs stop_gameplay_music,
\* OnTransition {Title, Gameplay} runs spawn_level, OnEnter(Gameplay) runs
\* spawn_enemies and start_gameplay_music
StateTransition ==
    /\ pc = "StateTransition"
    /\ nextState = "Gameplay" => world.enemies < ENEMIES_PER_SPAWN * MaxGameplayEntries
    /\ IF nextState \in {"Unchanged", gameState}
       THEN /\ world' = [world EXCEPT !.changed = FALSE]
            /\ UNCHANGED gameState
       ELSE /\ gameState' = nextState
            /\ LET exit == IF gameState = "Gameplay"
                           THEN stop_gameplay_music(world) ELSE world
                   enter == IF nextState = "Gameplay"
                            THEN start_gameplay_music(exit) ELSE exit
               IN  world' = [enter EXCEPT
                       !.levels = IF gameState = "Title" /\ nextState = "Gameplay"
                                  THEN @ + 1 ELSE @,
                       !.enemies = IF nextState = "Gameplay"
                                   THEN @ + ENEMIES_PER_SPAWN ELSE @,
                       !.changed = TRUE,
                       !.exited = gameState,
                       !.settings_from = IF nextState = "Settings"
                                         THEN gameState ELSE @]
    /\ nextState' = "Unchanged"
    /\ pc' = "Pointer"
    /\ ScreensUnchanged

\* the asset server finishes loading
AssetsLoaded ==
    /\ pc = "Pointer"
    /\ ~world.all_done
    /\ world' = [world EXCEPT !.all_done = TRUE]
    /\ UNCHANGED <<gameState, nextState, pc>>
    /\ ScreensUnchanged

NoClick ==
    /\ pc = "Pointer"
    /\ pc' = "PreUpdate"
    /\ UNCHANGED <<gameState, nextState, world>>
    /\ ScreensUnchanged

\* a click sets the next state and PreviousState
Click(previous, next) ==
    /\ pc = "Pointer"
    /\ nextState' = next
    /\ world' = [world EXCEPT !.previous_state = previous]
    /\ pc' = "PreUpdate"
    /\ UNCHANGED gameState
    /\ ScreensUnchanged

\* title.rs, button Play
enter_loading_or_gameplay_screen ==
    /\ gameState = "Title"
    /\ Click(world.previous_state, IF world.all_done THEN "Gameplay" ELSE "Loading")

\* the button Settings recording Title as the previous state on both screens
enter_settings_screen_from_title ==
    /\ gameState \in {"Title", "Pausing"}
    /\ Click("Title", "Settings")

\* title.rs, button Settings of the Title and of the Pausing screen
enter_settings_screen ==
    /\ gameState \in {"Title", "Pausing"}
    /\ Click(gameState, "Settings")

\* title.rs, button Credits
enter_credits_screen ==
    /\ gameState = "Title"
    /\ Click("Title", "Credits")

\* credits.rs, button Back
credits_enter_title_screen ==
    /\ gameState = "Credits"
    /\ Click("Credits", "Title")

\* settings.rs, button Back
enter_last_screen ==
    /\ gameState = "Settings"
    /\ Click("Settings", world.previous_state)

\* pause.rs, button Continue
continue_to_gameplay_screen ==
    /\ gameState = "Pausing"
    /\ Click("Pausing", "Gameplay")

\* pause.rs, button Title
pause_enter_title_screen ==
    /\ gameState = "Pausing"
    /\ Click("Pausing", "Title")

\* destroy_on_enter, run if the state changed in this frame: the Level entities
\* carry DestroyOnEnter([Title]), the Enemy entities carry none
DestroyOnEnter ==
    /\ pc = "PreUpdate"
    /\ world' = IF world.changed /\ gameState = "Title"
                THEN [world EXCEPT !.levels = 0]
                ELSE world
    /\ pc' = "Update"
    /\ UNCHANGED <<gameState, nextState>>
    /\ ScreensUnchanged

\* loading.rs, run in Loading once all assets are loaded
enter_gameplay_screen ==
    /\ pc = "Update"
    /\ gameState = "Loading" /\ world.all_done
    /\ nextState' = "Gameplay"
    /\ world' = [world EXCEPT !.previous_state = "Loading"]
    /\ pc' = "StateTransition"
    /\ UNCHANGED gameState
    /\ ScreensUnchanged

\* gameplay.rs, run in Gameplay and Pausing when Escape was just pressed
pause_or_continue_gameplay ==
    /\ pc = "Update"
    /\ gameState \in {"Gameplay", "Pausing"}
    /\ nextState' = IF gameState = "Pausing" THEN "Gameplay" ELSE "Pausing"
    /\ world' = [world EXCEPT !.previous_state = gameState]
    /\ pc' = "StateTransition"
    /\ UNCHANGED gameState
    /\ ScreensUnchanged

\* neither of the two runs in this frame
NoScreenSystem ==
    /\ pc = "Update"
    /\ ~(gameState = "Loading" /\ world.all_done)
    /\ pc' = "StateTransition"
    /\ UNCHANGED <<gameState, nextState, world>>
    /\ ScreensUnchanged

NextScreens ==
    \/ StateTransition
    \/ AssetsLoaded
    \/ NoClick
    \/ enter_loading_or_gameplay_screen
    \/ enter_settings_screen
    \/ enter_credits_screen
    \/ credits_enter_title_screen
    \/ enter_last_screen
    \/ continue_to_gameplay_screen
    \/ pause_enter_title_screen
    \/ DestroyOnEnter
    \/ enter_gameplay_screen
    \/ pause_or_continue_gameplay
    \/ NoScreenSystem

SpecScreens == InitScreens /\ [][NextScreens]_vars

\* each Level entity has one Player child
Players == world.levels

(***************************************************************************)
(* C28: whenever the game state is Gameplay exactly one player entity      *)
(* exists, and at no time more than one, on every path through the screens *)
(***************************************************************************)
C28_ExactlyOnePlayerInGameplay ==
    /\ gameState = "Gameplay" => Players = 1
    /\ Players <= 1

\* never more than one player
C28_AtMostOnePlayer == Players <= 1

\* Gameplay reached through the Loading screen, without a player
C28_GameplayWithoutPlayer ==
    gameState = "Gameplay" /\ world.previous_state = "Loading" /\ Players = 0

\* Gameplay resumed and re-entered from the Title screen with its one player
C28_GameplayWithPlayer ==
    gameState = "Gameplay" /\ world.previous_state = "Pausing" /\ Players = 1
    /\ world.enemies = ENEMIES_PER_SPAWN * MaxGameplayEntries

(***************************************************************************)
(* C30: the number of enemy entities is exactly 5 whenever the game state  *)
(* is Gameplay, however many times Gameplay has been entered               *)
(***************************************************************************)
C30_FiveEnemiesInGameplay ==
    gameState = "Gameplay" => world.enemies = ENEMIES_PER_SPAWN

\* Gameplay resumed from Pausing with the enemies of two spawns
C30_EnemiesAfterResume ==
    /\ gameState = "Gameplay"
    /\ world.previous_state = "Pausing"
    /\ world.enemies = 2 * ENEMIES_PER_SPAWN

\* the first entry into Gameplay
C30_EnemiesAfterFirstStart ==
    /\ gameState = "Gameplay"
    /\ world.previous_state = "Splash"
    /\ world.enemies = ENEMIES_PER_SPAWN

(***************************************************************************)
(* C29: while the game state is Pausing the player is frozen: over a frame *)
(* its position, animation state, frame and action state do not change and *)
(* no footstep cue is emitted, whatever intent was held at the pause and   *)
(* whatever keys are pressed                                               *)
(***************************************************************************)
C29_FrozenWhilePausing ==
    (EndOfFrame /\ gameState = "Pausing")
    => /\ actors[1].pos = ZERO
       /\ anim.state = pre.anim.state
       /\ anim.frame = pre.anim.frame
       /\ act = pre.act
       /\ cues = 0

\* the part of it that apply_movement and the input systems keep
C29_PositionAndIntentFrozen ==
    (EndOfFrame /\ gameState = "Pausing") => actors[1].pos = ZERO

\* a footstep cue in a Pausing frame
C29_CueWhilePausing == EndOfFrame /\ gameState = "Pausing" /\ cues > 0

\* the frame advances in a Pausing frame
C29_FrameAdvancesWhilePausing ==
    /\ EndOfFrame /\ gameState = "Pausing"
    /\ anim.state = pre.anim.state
    /\ anim.frame # pre.anim.frame

\* an action key starts an action in a Pausing frame
C29_ActionStartsWhilePausing ==
    /\ EndOfFrame /\ gameState = "Pausing"
    /\ pre.act.current_action = None
    /\ act.current_action # None
    /\ anim.state \in ActionStates

(***************************************************************************)
(* apply_movement over several frames: the player's intent is set anew in  *)
(* every frame, the enemy keeps the intent it has, the frame time and the  *)
(* map stay as they are.  Every actor starts with its probe point (its     *)
(* position plus the half extents of its Aabb) outside the obstacle cells. *)
(* pre.before holds the actors before the last frame, pre.ticks counts the *)
(* frames, pre.blocked tells whether some frame has left the player, with  *)
(* a nonzero intent, where it was.                                         *)
(***************************************************************************)
MaxTicks == 3
\* the maps with an obstacle in the middle or in a corner, of one or two layers
TickMaps ==
    {m \in MoveMaps \ {<<>>} : \/ m[Len(m)].tiles[<<1, 1>>] = "Obstacle"
                                \/ m[Len(m)].tiles[<<0, 2>>] = "Obstacle"}
\* the enemy starts on the map
TickEnemyPositions == {p \in EnemyPositions : p[1] >= 0}
\* and roams to the left or upwards
TickEnemyIntents == {i \in EnemyIntents : i # ZERO /\ i[1] <= 0}

ProbePoint(a) == <<a.pos[1] + a.half[1], a.pos[2] + a.half[2]>>
ProbeInObstacle(a) ==
    \E k \in 1..Len(tilemaps) : ObstacleAt(ProbePoint(a), tilemaps[k])
IsPlayer(a) == a.max_speed = PLAYER_MAX_SPEED

InitTicks ==
    /\ gameState = "Gameplay"
    /\ nextState = "Unchanged"
    /\ pc = "move"
    /\ chain = 0
    /\ moved = FALSE
    /\ keys = {}
    /\ dt \in MoveDeltaTimes
    /\ anim = PlayerAnimationNew
    /\ act = PlayerActionStateDefault
    /\ tilemaps \in TickMaps
    /\ \E p1 \in PlayerPositions, p2 \in TickEnemyPositions, i2 \in TickEnemyIntents :
           LET player == [PlayerActor EXCEPT !.pos = p1]
               enemy == [EnemyActor EXCEPT !.pos = p2, !.intent = i2]
           IN  /\ actors \in {<<player, enemy>>, <<enemy, player>>}
               /\ ~ProbeInObstacle(player)
               /\ ~ProbeInObstacle(enemy)
    /\ camera = CameraDefault
    /\ world = WorldDefault
    /\ sprite = [index |-> get_atlas_index(PlayerAnimationNew), anchor |-> ZERO]
    /\ cues = 0
    /\ pre = [before |-> actors, ticks |-> 0, blocked |-> FALSE]

\* a Gameplay frame: the input sets the player's intent, apply_movement runs
TickMove ==
    /\ pc = "move"
    /\ gameState = "Gameplay"
    /\ pre.ticks < MaxTicks
    /\ \E intent \in Intents :
           LET as == [i \in 1..Len(actors) |->
                          IF IsPlayer(actors[i])
                          THEN [actors[i] EXCEPT !.intent = intent]
                          ELSE actors[i]]
           IN  /\ actors' = apply_movement(as, tilemaps, dt)
               /\ pre' = [before |-> as, ticks |-> pre.ticks + 1,
                          blocked |-> pre.blocked
                              \/ \E i \in 1..Len(as) :
                                     /\ IsPlayer(as[i])
                                     /\ intent # ZERO
                                     /\ actors'[i].pos = as[i].pos]
    /\ UNCHANGED <<gameState, nextState, pc, chain, moved, keys, dt, anim, act,
                   tilemaps, camera, world, sprite, cues>>

NextTicks == TickMove

SpecTicks == InitTicks /\ [][NextTicks]_vars

(***************************************************************************)
(* C31: for an actor moved only by apply_movement whose probe point starts *)
(* outside every obstacle cell, after any sequence of frames the probe     *)
(* point is never inside an obstacle cell                                  *)
(***************************************************************************)
C31_ProbeNeverInObstacle ==
    \A i \in 1..Len(actors) : ~ProbeInObstacle(actors[i])

\* the player has been stopped by the obstacle in one frame and has moved in
\* the last, to a probe point on the map
C31_Witness ==
    /\ pre.ticks = MaxTicks
    /\ pre.blocked
    /\ \E i \in 1..Len(actors) :
           /\ IsPlayer(actors[i])
           /\ actors[i].pos # pre.before[i].pos
           /\ \E k \in 1..Len(tilemaps) :
                  TilePosFromWorldPos(ProbePoint(actors[i]), tilemaps[k]) # NoTile

(***************************************************************************)
(* C32: the Back button of the Settings screen returns to the screen from  *)
(* which Settings was entered, Title or Pausing, whatever transitions came *)
(* before                                                                  *)
(***************************************************************************)
C32_SettingsBackReturns ==
    /\ gameState = "Settings" => world.settings_from \in {"Title", "Pausing"}
    /\ (gameState # "Settings" /\ world.exited = "Settings")
       => gameState = world.settings_from

\* back on the Pausing screen from Settings, in a game that had been to the
\* Title screen's Settings before
C32_Witness ==
    /\ gameState = "Pausing"
    /\ world.exited = "Settings"
    /\ world.settings_from = "Pausing"
    /\ world.enemies > ENEMIES_PER_SPAWN

C32_WitnessTitle ==
    /\ gameState = "Title"
    /\ world.exited = "Settings"
    /\ world.settings_from = "Title"

(***************************************************************************)
(* C33: a gameplay music entity exists exactly while the game state is     *)
(* Gameplay and at most one exists at any time; GameplayMusic records it   *)
(* while it exists, after any sequence of pause, resume and                *)
(* return-to-title transitions                                             *)
(***************************************************************************)
C33_MusicExactlyInGameplay ==
    /\ world.music = (IF gameState = "Gameplay" THEN 1 ELSE 0)
    /\ world.music_entity <=> world.music = 1

\* Gameplay entered for the third time, through Pausing, with its one music entity
C33_Witness ==
    /\ gameState = "Gameplay"
    /\ world.exited = "Pausing"
    /\ world.enemies = ENEMIES_PER_SPAWN * MaxGameplayEntries
    /\ world.music = 1

\* paused, or back on the Title screen after a game, without music
C33_WitnessStopped ==
    /\ gameState \in {"Pausing", "Title"}
    /\ world.exited \in {"Gameplay", "Pausing"}
    /\ world.music = 0

(***************************************************************************)
(* tiledhelper.rs, process_loaded_maps: the AssetEvent<TiledMap> events of *)
(* one update are read in order into changed_maps, the handles of the map  *)
(* entities added in the update are appended, and every map entity whose   *)
(* handle is in changed_maps and whose asset is in Assets<TiledMap> has    *)
(* its layers rebuilt.  Every map id has a map entity.  pre holds the      *)
(* events of the update, changed_maps and the set of maps rebuilt.         *)
(***************************************************************************)
MaxMaps == 2
MaxEvents == 3
MapIds == 1..MaxMaps
AssetEvents == [kind : {"Added", "Modified", "Removed"}, id : MapIds]

\* the fold over map_events: Added and Modified push the id, Removed retains
\* the entries equal to its id
RECURSIVE ChangedMapsFrom(_, _, _)
ChangedMapsFrom(events, i, changed_maps) ==
    IF i > Len(events) THEN changed_maps
    ELSE IF events[i].kind \in {"Added", "Modified"}
    THEN ChangedMapsFrom(events, i + 1, Append(changed_maps, events[i].id))
    ELSE ChangedMapsFrom(events, i + 1,
             SelectSeq(changed_maps, LAMBDA changed_handle : changed_handle = events[i].id))

changed_maps_of(events) == ChangedMapsFrom(events, 1, <<>>)

\* positions of the events of map id
EventsOf(events, id) == {i \in 1..Len(events) : events[i].id = id}
Last(S) == CHOOSE i \in S : \A j \in S : j <= i

\* maps.get(handle) is Some: the asset has not been removed by the end of the
\* update (every map asset is loaded when the update begins)
AssetPresent(events, id) ==
    EventsOf(events, id) # {} => events[Last(EventsOf(events, id))].kind # "Removed"

InitMaps ==
    /\ gameState = "Gameplay"
    /\ nextState = "Unchanged"
    /\ pc = "events"
    /\ chain = 0
    /\ moved = FALSE
    /\ keys = {}
    /\ dt = 0
    /\ anim = PlayerAnimationNew
    /\ act = PlayerActionStateDefault
    /\ actors = <<PlayerActor>>
    /\ tilemaps = <<>>
    /\ camera = CameraDefault
    /\ world = WorldDefault
    /\ sprite = [index |-> get_atlas_index(PlayerAnimationNew), anchor |-> ZERO]
    /\ cues = 0
    /\ pre = [events |-> <<>>, changed_maps |-> <<>>, rebuilt |-> {}]

MapsUnchanged ==
    UNCHANGED <<gameState, nextState, chain, moved, keys, dt, anim, act, actors,
                tilemaps, camera, world, sprite, cues>>

\* the asset server sends an event in this update
SendAssetEvent ==
    /\ pc = "events"
    /\ Len(pre.events) < MaxEvents
    /\ \E event \in AssetEvents :
           pre' = [pre EXCEPT !.events = Append(@, event)]
    /\ UNCHANGED pc
    /\ MapsUnchanged

ProcessLoadedMaps ==
    /\ pc = "events"
    /\ \E new_maps \in SUBSET MapIds :
           LET changed_maps ==
                   changed_maps_of(pre.events)
                       \o [i \in 1..Cardinality(new_maps) |->
                               CHOOSE id \in new_maps :
                                   Cardinality({j \in new_maps : j < id}) = i - 1]
           IN  pre' = [pre EXCEPT
                   !.changed_maps = changed_maps,
                   !.rebuilt = {changed_maps[i] : i \in
                                   {j \in 1..Len(changed_maps) :
                                        AssetPresent(pre.events, changed_maps[j])}}]
    /\ pc' = "processed"
    /\ MapsUnchanged

\* the next update begins with no event read
NextUpdate ==
    /\ pc = "processed"
    /\ pre' = [events |-> <<>>, changed_maps |-> <<>>, rebuilt |-> {}]
    /\ pc' = "events"
    /\ MapsUnchanged

NextMaps == SendAssetEvent \/ ProcessLoadedMaps \/ NextUpdate

SpecMaps == InitMaps /\ [][NextMaps]_vars

\* map id was added or modified and then removed in the update
ChangedThenRemoved(events, id) ==
    \E i, j \in EventsOf(events, id) :
        /\ i < j
        /\ events[i].kind \in {"Added", "Modified"}
        /\ events[j].kind = "Removed"
        /\ j = Last(EventsOf(events, id))

\* map id was added or modified in the update and not removed
ChangedNotRemoved(events, id) ==
    /\ \E i \in EventsOf(events, id) : events[i].kind \in {"Added", "Modified"}
    /\ \A i \in EventsOf(events, id) : events[i].kind # "Removed"

(***************************************************************************)
(* C34: when a map asset is modified (or added) and removed in the same    *)
(* update its modification is ignored, and a Removed event for one map     *)
(* does not discard the pending Added/Modified events of the other maps    *)
(***************************************************************************)
C34_RemovedDropsOnlyItsOwnEvents ==
    pc = "processed"
    => \A id \in MapIds :
           /\ ChangedThenRemoved(pre.events, id) => id \notin pre.rebuilt
           /\ ChangedNotRemoved(pre.events, id)
              => /\ id \in pre.rebuilt
                 /\ \E i \in 1..Len(pre.changed_maps) : pre.changed_maps[i] = id

\* the first half alone: the removed map is not rebuilt
C34_RemovedMapNotRebuilt ==
    pc = "processed"
    => \A id \in MapIds :
           ChangedThenRemoved(pre.events, id) => id \notin pre.rebuilt

\* Modified(1), Modified(2), Removed(1): the modification of map 2 is lost and
\* that of map 1 is still in changed_maps
C34_OtherMapDiscarded ==
    /\ pc = "processed"
    /\ pre.events = <<[kind |-> "Modified", id |-> 1], [kind |-> "Modified", id |-> 2],
                      [kind |-> "Removed", id |-> 1]>>
    /\ pre.changed_maps = <<1>>
    /\ pre.rebuilt = {}

(***************************************************************************)
(* enemy.rs, apply_roaming: one enemy under ticks of a fixed step.  Time   *)
(* advances by the step and apply_roaming runs with the new elapsed time;  *)
(* world.elapsed is Time::elapsed in ms.  pre counts the ticks of the      *)
(* current 2-second period in which the intent was chosen anew (chosen),   *)
(* keeps that count for the last whole period that ended (completed, -1    *)
(* when none has), and records the last tick (rechosen, before).           *)
(***************************************************************************)
ROAM_PERIOD == 2000
ROAM_WINDOW == 100
MaxRoamPeriods == 2
RoamDeltaTimes == {50, 100, 300}
\* values of Vec2::new(random * 2 - 1, random * 2 - 1).normalize_or_zero()
RoamIntents == {<<1000, 0>>, <<0, -1000>>, <<-707, 707>>}

\* time.elapsed_secs() % 2.0 < 0.1
InRoamWindow(elapsed) == elapsed % ROAM_PERIOD < ROAM_WINDOW

\* the body of apply_roaming for one enemy, random_intent being the random
\* direction drawn when the test passes
apply_roaming(enemy, elapsed, delta, random_intent) ==
    LET controller == IF InRoamWindow(elapsed)
                      THEN [enemy EXCEPT !.intent = random_intent]
                      ELSE enemy
        d == DeltaMovement(controller, delta)
    IN  [controller EXCEPT !.pos = <<@[1] + d[1], @[2] + d[2]>>]

InitRoam ==
    /\ gameState = "Gameplay"
    /\ nextState = "Unchanged"
    /\ pc = "roam"
    /\ chain = 0
    /\ moved = FALSE
    /\ keys = {}
    /\ dt \in RoamDeltaTimes
    /\ anim = PlayerAnimationNew
    /\ act = PlayerActionStateDefault
    /\ actors = <<[EnemyActor EXCEPT !.pos = <<100000, 100000>>]>>
    /\ tilemaps = <<>>
    /\ camera = CameraDefault
    /\ world = [elapsed |-> 0] @@ WorldDefault
    /\ sprite = [index |-> get_atlas_index(PlayerAnimationNew), anchor |-> ZERO]
    /\ cues = 0
    /\ pre = [chosen |-> 0, completed |-> -1, rechosen |-> FALSE, before |-> ZERO]

\* one tick: Time advances by the step, then apply_roaming runs
RoamTick ==
    /\ pc = "roam"
    /\ gameState = "Gameplay"
    /\ world.elapsed \div ROAM_PERIOD < MaxRoamPeriods
    /\ LET elapsed == world.elapsed + dt
           new_period == elapsed \div ROAM_PERIOD # world.elapsed \div ROAM_PERIOD
           count == IF new_period THEN 0 ELSE pre.chosen
       IN  /\ world' = [world EXCEPT !.elapsed = elapsed]
           /\ \E random_intent \in RoamIntents :
                  actors' = <<apply_roaming(actors[1], elapsed, dt, random_intent)>>
           /\ pre' = [chosen |-> IF InRoamWindow(elapsed) THEN count + 1 ELSE count,
                      completed |-> IF new_period /\ world.elapsed >= ROAM_PERIOD
                                    THEN pre.chosen ELSE pre.completed,
                      rechosen |-> InRoamWindow(elapsed),
                      before |-> actors[1].intent]
    /\ UNCHANGED <<gameState, nextState, pc, chain, moved, keys, dt, anim, act,
                   tilemaps, camera, sprite, cues>>

NextRoam == RoamTick

SpecRoam == InitRoam /\ [][NextRoam]_vars

(***************************************************************************)
(* C35: for every tick step size the enemy's intent is chosen anew exactly *)
(* once in each 2-second period of elapsed time and is unchanged in all    *)
(* other ticks                                                             *)
(***************************************************************************)
C35_RechosenOncePerPeriod ==
    /\ pre.chosen <= 1
    /\ pre.completed \in {-1, 1}
    /\ ~pre.rechosen => actors[1].intent = pre.before

\* the part that holds: outside the window the intent is left alone
C35_UnchangedOutsideWindow ==
    ~pre.rechosen => actors[1].intent = pre.before

\* steps of 50 ms: chosen at 2000 ms and again at 2050 ms
C35_ChosenTwice ==
    /\ dt = 50
    /\ world.elapsed = 2050
    /\ pre.chosen = 2

\* steps of 300 ms: the ticks at 1800 ms and 2100 ms miss the window
C35_NeverChosen ==
    /\ dt = 300
    /\ world.elapsed \div ROAM_PERIOD = 2
    /\ pre.completed = 0

\* steps of 100 ms: chosen once, at 2000 ms
C35_ChosenOnce ==
    /\ dt = 100
    /\ world.elapsed \div ROAM_PERIOD = 2
    /\ pre.completed = 1

(***************************************************************************)
(* C36: in every reachable state of a PlayerAnimation the frame is 0 or 1  *)
(* and the period of the timer is the interval of the category of the      *)
(* current state: 500 ms Idling, 150 ms Walking, 300 ms Hoeing, Watering   *)
(* and Chopping; no sequence of update_timer and update_state calls        *)
(* separates the state from its timer period                               *)
(***************************************************************************)
C36_FrameAndPeriodMatchState ==
    /\ anim.frame \in {0, 1}
    /\ anim.state \in IdlingStates => anim.timer.duration = 500
    /\ anim.state \in WalkingStates => anim.timer.duration = 150
    /\ anim.state \in HoeingStates \cup WateringStates \cup ChoppingStates
       => anim.timer.duration = 300

\* a Walking animation entered by update_state and advanced to frame 1 by
\* update_timer
C36_Witness ==
    /\ pre.op = "update_timer"
    /\ pre.before.state \in WalkingStates
    /\ pre.before.frame = 0
    /\ anim.frame = 1
    /\ anim.timer.duration = 150

\* update_state from a Walking state to an action state
C36_WitnessAction ==
    /\ pre.op = "update_state"
    /\ pre.before.state \in WalkingStates
    /\ anim.state \in ChoppingStates
    /\ anim.timer.duration = 300

\* update_timer wrapping from frame 1 to frame 0
C36_WitnessWrap ==
    /\ pre.op = "update_timer"
    /\ pre.before.frame = 1
    /\ anim.frame = 0

(***************************************************************************)
(* player.rs, player: the atlas layout of the player's sprite sheet,       *)
(* TextureAtlasLayout::from_grid(cell size, 16 columns, 6 rows)            *)
(***************************************************************************)
PLAYER_ATLAS_COLUMNS == 16
PLAYER_ATLAS_ROWS == 6
PlayerAtlasCells == PLAYER_ATLAS_COLUMNS * PLAYER_ATLAS_ROWS

\* the index get_atlas_index returns for state s showing frame f
AtlasIndexOf(s, f) == get_atlas_index([anim EXCEPT !.state = s, !.frame = f])

(***************************************************************************)
(* C37: for all 20 states and both frames the atlas index is below 96, the *)
(* number of cells of the 16 by 6 player atlas layout, and two different   *)
(* (state, frame) pairs never yield the same atlas index                   *)
(***************************************************************************)
C37_AtlasIndexInRangeAndInjective ==
    pre.op = "sample"
    => /\ pre.index < 96
       /\ \A s \in PlayerAnimationState, f \in {0, 1} :
              /\ AtlasIndexOf(s, f) < PlayerAtlasCells
              /\ <<s, f>> # <<anim.state, anim.frame>> => AtlasIndexOf(s, f) # pre.index

\* the largest index: WateringR showing frame 1
C37_Witness ==
    /\ pre.op = "sample"
    /\ anim.state = "WateringR"
    /\ anim.frame = 1
    /\ pre.index = 57

\* neighbouring cells of the sheet: IdlingB frame 1 next to WalkingB frame 0
C37_WitnessNeighbour ==
    /\ pre.op = "sample"
    /\ anim.state = "IdlingB"
    /\ anim.frame = 1
    /\ pre.index = 1
    /\ AtlasIndexOf("WalkingB", 0) = 2

====
